---- MODULE Spec2Model ----
(***************************************************************************)
(* PlantCare AI (PlantAppFlask): the OpenCV image pipeline of              *)
(* image_processor.py and the prediction service of predict.py.            *)
(*                                                                         *)
(* Numbers.  Percentages and scores are kept in hundredths (the code       *)
(* returns round(x, 2)); ratios are kept as pairs of pixel counts.         *)
(* Probabilities are kept in units of 1/ProbScale.                         *)
(***************************************************************************)
EXTENDS Integers, Sequences, FiniteSets, TLC

VARIABLES
    image_bytes,    \* the caller's input buffer of the current request
    promotion,      \* scalar promotion rule of the installed NumPy
    target_size,    \* ImageProcessor.target_size
    ret,            \* outcome of the last ImageProcessor call on image_bytes
    calls,          \* the ImageProcessor calls made so far: op, input, outcome
    threads,        \* the calls in progress on the shared instance, one per thread
    predictions,    \* probability vector the classifier yields for the input
    model,          \* predict.py global `model`
    class_names,    \* predict.py global `class_names`
    model_file,     \* does model/plant_disease_model.h5 exist
    classes_file,   \* can model/classes.json be opened and parsed
    load_ret,       \* outcome of the last direct load_model call
    gate_ret,       \* outcome of the last get_confidence_threshold call
    predict_ret,    \* outcome of the last predict_disease call
    session,        \* Flask session (the signed cookie) of the client
    users,          \* table users of plantcare.db
    diagnosis_history,  \* table diagnosis_history
    chat_history,   \* table chat_history
    sqlite_sequence,    \* AUTOINCREMENT counters: the largest id each table ever held
    uploads,        \* the files of UPLOAD_FOLDER
    clock,          \* CURRENT_TIMESTAMP, in seconds
    response,       \* the response to the client's last request
    logins,         \* the client's api_login and api_logout requests so far, with the responses
    creating,       \* the create_user calls in progress, one per caller
    db_ret          \* result of the last direct update_user, reset_password or delete_user call

pipelineVars ==
    <<image_bytes, promotion, target_size, ret, calls, threads, predictions,
      model, class_names, model_file, classes_file, load_ret, gate_ret,
      predict_ret>>

webVars ==
    <<session, users, diagnosis_history, chat_history, sqlite_sequence,
      uploads, clock, response, logins, creating, db_ret>>

vars == <<image_bytes, promotion, target_size, ret, calls, threads, predictions, model,
          class_names, model_file, classes_file, load_ret, gate_ret,
          predict_ret, session, users, diagnosis_history, chat_history,
          sqlite_sequence, uploads, clock, response, logins, creating, db_ret>>

(***************************************************************************)
(* Bounds of the model.                                                    *)
(***************************************************************************)
MaxPixels == 10
MaxSide == 7
MaxCalls == 3
MaxAuth == 3
MaxRows == 2
MaxClock == 1
MaxCreators == 3
\* diagnoses saved before the first step: one more than the LIMIT of
\* api_history
MaxSeeded == 21
ProbScale == 20

(***************************************************************************)
(* Arithmetic helpers.                                                     *)
(***************************************************************************)
Max2(a, b) == IF a >= b THEN a ELSE b
Min2(a, b) == IF a <= b THEN a ELSE b

\* a / b rounded to the nearest integer, ties to even (cvRound, round()).
RoundDiv(a, b) ==
    LET q == a \div b
        r == a % b
    IN  IF 2 * r < b THEN q
        ELSE IF 2 * r > b THEN q + 1
        ELSE IF q % 2 = 0 THEN q ELSE q + 1

\* the array holding f[lo], ..., f[hi]
RECURSIVE ArraySlice(_, _, _)
ArraySlice(f, lo, hi) ==
    IF lo > hi THEN <<>>
    ELSE IF lo = hi THEN <<f[lo]>>
    ELSE LET mid == (lo + hi) \div 2
         IN  ArraySlice(f, lo, mid) \o ArraySlice(f, mid + 1, hi)

\* the array holding f[1], ..., f[n]
AsArray(f, n) == ArraySlice(f, 1, n)

RECURSIVE SumSeq(_)
SumSeq(s) == IF s = <<>> THEN 0 ELSE Head(s) + SumSeq(Tail(s))

(***************************************************************************)
(* Pixels.  A decoded pixel is a BGR triple of 8-bit values, the order     *)
(* cv2.imdecode produces.  The colours the inputs are painted with hit     *)
(* both sides of every hue-band edge and of the mask thresholds.           *)
(***************************************************************************)
BGR(b, g, r) == <<b, g, r>>

Black      == BGR(0, 0, 0)
YellowBrown == BGR(30, 150, 200)  \* RGB 200,150,30: hue 21
PureGreen  == BGR(0, 255, 0)      \* RGB 0,255,0: hue 60

Palette ==
    {Black,
     BGR(0, 123, 255),      \* orange, hue 14
     BGR(0, 124, 255),      \* orange, hue 15
     YellowBrown,
     BGR(0, 255, 217),      \* lime, hue 34
     BGR(0, 255, 216),      \* lime, hue 35
     PureGreen,
     BGR(0, 30, 0),         \* dark green: hue 60, value 30
     BGR(220, 255, 220),    \* pale green: hue 60, saturation 35
     BGR(209, 255, 0),      \* teal, hue 85
     BGR(255, 0, 255)}      \* magenta, hue 150

(***************************************************************************)
(* cv2.cvtColor(img, cv2.COLOR_BGR2HSV) on 8-bit pixels: OpenCV's          *)
(* fixed-point RGB2HSV_b with hue range 180 (hsv_shift = 12).              *)
(***************************************************************************)
hsv_shift == 12
HueRange  == 180

BGR2HSV(p) ==
    LET b    == p[1]
        g    == p[2]
        r    == p[3]
        v    == Max2(b, Max2(g, r))
        vmin == Min2(b, Min2(g, r))
        diff == v - vmin
        sdiv_table == IF v = 0 THEN 0 ELSE RoundDiv(255 * (2 ^ hsv_shift), v)
        hdiv_table180 ==
            IF diff = 0 THEN 0
            ELSE RoundDiv(HueRange * (2 ^ hsv_shift), 6 * diff)
        s    == (diff * sdiv_table + 2 ^ (hsv_shift - 1)) \div (2 ^ hsv_shift)
        h0   == IF v = r THEN g - b
                ELSE IF v = g THEN b - r + 2 * diff
                ELSE r - g + 4 * diff
        h1   == (h0 * hdiv_table180 + 2 ^ (hsv_shift - 1))
                    \div (2 ^ hsv_shift)
        h    == IF h1 < 0 THEN h1 + HueRange ELSE h1
    IN  [h |-> h, s |-> s, v |-> v]

cvtColorHSV(img) ==
    [w |-> img.w, h |-> img.h,
     px |-> AsArray([i \in 1..Len(img.px) |-> BGR2HSV(img.px[i])], Len(img.px))]

(***************************************************************************)
(* Input buffers.  An encoded image is represented by the pixel grid it    *)
(* decodes to (row-major, w columns, h rows); the other buffers are the    *)
(* empty buffer, a truncated encoding and bytes that are no image.         *)
(***************************************************************************)
Buffer(kind, w, h, px) == [kind |-> kind, w |-> w, h |-> h, px |-> px]

EmptyBuffer     == Buffer("empty", 0, 0, <<>>)
GarbageBuffer   == Buffer("garbage", 0, 0, <<>>)

\* row-major pixels: the first k pixels painted a, the others b
TwoTone(n, k, a, b) == AsArray([i \in 1..n |-> IF i <= k THEN a ELSE b], n)

\* the empty, a truncated and a garbage buffer, and the encoded two-tone
\* images of up to MaxPixels pixels
Buffers ==
    {EmptyBuffer, Buffer("truncated", 0, 0, <<>>), GarbageBuffer} \cup
    {Buffer("image", d[1], d[2], TwoTone(d[1] * d[2], k, c[1], c[2])) :
        d \in {e \in (1..MaxPixels) \X (1..MaxPixels) : e[1] * e[2] <= MaxPixels},
        k \in 1..MaxPixels, c \in Palette \X Palette}

\* square frames for the edge detector: side x side pixels painted bg, with
\* a centred square of fg that leaves a margin of m pixels (m = 0: solid fg)
Red   == BGR(0, 0, 255)
White == BGR(255, 255, 255)

Inset(side, m, fg, bg) ==
    Buffer("image", side, side,
           AsArray([i \in 1..(side * side) |->
                      LET x == (i - 1) % side
                          y == (i - 1) \div side
                      IN  IF /\ x >= m /\ x < side - m
                             /\ y >= m /\ y < side - m
                          THEN fg ELSE bg],
                   side * side))

EdgePaints == {Red, Black, White, PureGreen}

EdgeFrames ==
    {Inset(side, m, fg, bg) :
        side \in 1..MaxSide, m \in 0..2, fg \in EdgePaints, bg \in EdgePaints}
    \cup {Inset(50, m, Red, bg) : m \in {0, 10}, bg \in {Black, White}}

(***************************************************************************)
(* Values returned to the caller.  Python's None is NoneArtifact where an  *)
(* artifact is expected and ErrNone where an error string is expected.     *)
(***************************************************************************)
NoneArtifact == [kind |-> "None"]
ErrNone      == "None"
FailedToLoad == "Failed to load image"

Returned(op, artifact, mask, error) ==
    [op |-> op, outcome |-> "returned", artifact |-> artifact,
     mask |-> mask, error |-> error]
Raised(op, exc) ==
    [op |-> op, outcome |-> "raised", artifact |-> NoneArtifact,
     mask |-> NoneArtifact, error |-> exc]
NoCall == Returned("none", NoneArtifact, NoneArtifact, ErrNone)

(***************************************************************************)
(* cv2.imdecode(np.frombuffer(image_bytes, np.uint8), cv2.IMREAD_COLOR).   *)
(* OpenCV asserts !buf.empty(): the empty buffer raises cv2.error.  A      *)
(* buffer no decoder accepts yields None.                                  *)
(***************************************************************************)
imdecode(buf) ==
    CASE buf.kind = "empty" -> [status |-> "raise", img |-> NoneArtifact]
      [] buf.kind = "image" ->
            [status |-> "ok",
             img |-> [w |-> buf.w, h |-> buf.h, px |-> buf.px]]
      [] OTHER -> [status |-> "none", img |-> NoneArtifact]

(***************************************************************************)
(* preprocess_image                                                        *)
(***************************************************************************)
\* cv2.cvtColor(img, cv2.COLOR_BGR2RGB)
cvtColorRGB(img) ==
    [w |-> img.w, h |-> img.h,
     px |-> AsArray([i \in 1..Len(img.px) |->
                        <<img.px[i][3], img.px[i][2], img.px[i][1]>>],
                    Len(img.px))]

\* cv2.fastNlMeansDenoisingColored keeps the size and the uint8 type; the
\* filtered values are kept only as the range of the type.
fastNlMeansDenoisingColored(img) ==
    [w |-> img.w, h |-> img.h, ch |-> 3, lo |-> 0, hi |-> 255]

\* (variant: the resize left out)
resize_skipped(img, dsize) == img

\* cv2.resize(img, dsize): dsize is (width, height); values stay uint8.
resize(img, dsize) ==
    [w |-> dsize[1], h |-> dsize[2], ch |-> img.ch, lo |-> img.lo, hi |-> img.hi]

\* img_resized / 255.0: an array of shape (rows, cols, channels) whose
\* values are n / den for the integers n in lo..hi.
Normalize(img) ==
    [kind |-> "tensor", shape |-> <<img.h, img.w, img.ch>>,
     lo |-> img.lo, hi |-> img.hi, den |-> 255]

preprocess_image(self_target_size, buf) ==
    LET d == imdecode(buf) IN
    IF d.status = "raise" THEN Raised("preprocess_image", "cv2.error")
    ELSE IF d.status = "none"
    THEN Returned("preprocess_image", NoneArtifact, NoneArtifact, FailedToLoad)
    ELSE LET img_rgb      == cvtColorRGB(d.img)
             img_denoised == fastNlMeansDenoisingColored(img_rgb)
             img_resized  == resize(img_denoised, self_target_size)
         IN  Returned("preprocess_image", Normalize(img_resized),
                      NoneArtifact, ErrNone)

(***************************************************************************)
(* enhance_image and detect_edges: the filters keep the spatial size; the  *)
(* filtered values are not modelled.                                       *)
(***************************************************************************)
enhance_image(buf) ==
    LET d == imdecode(buf) IN
    IF d.status = "raise" THEN Raised("enhance_image", "cv2.error")
    ELSE IF d.status = "none"
    THEN Returned("enhance_image", NoneArtifact, NoneArtifact, FailedToLoad)
    ELSE Returned("enhance_image",
                  [kind |-> "image", shape |-> <<d.img.h, d.img.w, 3>>],
                  NoneArtifact, ErrNone)

(***************************************************************************)
(* detect_edges: grayscale, 5x5 Gaussian blur, Canny with thresholds 50    *)
(* and 150, as OpenCV computes them on 8-bit images.  A single-channel     *)
(* image is [w, h, px], px row-major; pixel (x, y) counts from 0.          *)
(***************************************************************************)
At(img, x, y) == img.px[y * img.w + x + 1]

\* cv2.cvtColor(img, cv2.COLOR_BGR2GRAY): fixed point with shift 14
cvtColorGRAY(img) ==
    LET BGR2GRAY(p) ==
            (p[1] * 1868 + p[2] * 9617 + p[3] * 4899 + 2 ^ 13) \div (2 ^ 14)
    IN  [w |-> img.w, h |-> img.h,
         px |-> AsArray([i \in 1..Len(img.px) |-> BGR2GRAY(img.px[i])],
                        Len(img.px))]

\* cv::borderInterpolate for BORDER_REFLECT_101 (the default of GaussianBlur)
RECURSIVE borderReflect101(_, _)
borderReflect101(p, len) ==
    IF len = 1 THEN 0
    ELSE IF p < 0 THEN borderReflect101(-p, len)
    ELSE IF p >= len THEN borderReflect101(2 * len - 2 - p, len)
    ELSE p

\* cv2.GaussianBlur(gray, (5, 5), 0): the kernel (1, 4, 6, 4, 1) / 16 along
\* the rows, then along the columns, the sum rounded half up to 8 bits.
GaussianBlur(img) ==
    LET w == img.w
        h == img.h
        n == w * h
        rows == [w |-> w, h |-> h,
                 px |-> AsArray([i \in 1..n |->
                    LET x == (i - 1) % w
                        y == (i - 1) \div w
                    IN  At(img, borderReflect101(x - 2, w), y)
                        + 4 * At(img, borderReflect101(x - 1, w), y)
                        + 6 * At(img, x, y)
                        + 4 * At(img, borderReflect101(x + 1, w), y)
                        + At(img, borderReflect101(x + 2, w), y)], n)]
    IN  [w |-> w, h |-> h,
         px |-> AsArray([i \in 1..n |->
                    LET x == (i - 1) % w
                        y == (i - 1) \div w
                    IN  (At(rows, x, borderReflect101(y - 2, h))
                         + 4 * At(rows, x, borderReflect101(y - 1, h))
                         + 6 * At(rows, x, y)
                         + 4 * At(rows, x, borderReflect101(y + 1, h))
                         + At(rows, x, borderReflect101(y + 2, h))
                         + 128) \div 256], n)]

\* (variant: the gradient taken with a zero border around the frame)
AtReplicate_zeroBorder(img, x, y) ==
    IF x < 0 \/ x >= img.w \/ y < 0 \/ y >= img.h THEN 0 ELSE At(img, x, y)

\* the pixel read by Canny's Sobel filters, which use BORDER_REPLICATE
AtReplicate(img, x, y) ==
    At(img, Max2(0, Min2(img.w - 1, x)), Max2(0, Min2(img.h - 1, y)))

Abs(a) == IF a < 0 THEN -a ELSE a

\* the 3x3 Sobel derivatives
SobelX(img, x, y) ==
      (AtReplicate(img, x + 1, y - 1) - AtReplicate(img, x - 1, y - 1))
    + 2 * (AtReplicate(img, x + 1, y) - AtReplicate(img, x - 1, y))
    + (AtReplicate(img, x + 1, y + 1) - AtReplicate(img, x - 1, y + 1))
SobelY(img, x, y) ==
      (AtReplicate(img, x - 1, y + 1) - AtReplicate(img, x - 1, y - 1))
    + 2 * (AtReplicate(img, x, y + 1) - AtReplicate(img, x, y - 1))
    + (AtReplicate(img, x + 1, y + 1) - AtReplicate(img, x + 1, y - 1))

\* a value of the magnitude buffer, which is zero outside the frame
MagAt(mag, x, y) ==
    IF x < 0 \/ x >= mag.w \/ y < 0 \/ y >= mag.h THEN 0 ELSE At(mag, x, y)

\* the pixels next to pixel i (8-connectivity)
Neighbours8(w, h, i) ==
    LET x == (i - 1) % w
        y == (i - 1) \div w
    IN  {yy * w + xx + 1 :
            xx \in (Max2(0, x - 1))..(Min2(w - 1, x + 1)),
            yy \in (Max2(0, y - 1))..(Min2(h - 1, y + 1))} \ {i}

\* hysteresis: the strong pixels and the weak pixels linked to them
RECURSIVE Linked(_, _, _, _)
Linked(w, h, weak, found) ==
    LET more == {j \in weak \ found :
                    \E i \in Neighbours8(w, h, j) : i \in found}
    IN  IF more = {} THEN found ELSE Linked(w, h, weak, found \cup more)

\* cv2.Canny(blurred, low, high): aperture 3, L1 gradient magnitude.
\* A pixel above `low` survives when it is a maximum along its gradient
\* direction (sectors split at tan 22.5 and tan 67.5 in fixed point); it
\* is strong above `high`, weak otherwise.
Canny(img, low, high) ==
    LET w == img.w
        h == img.h
        n == w * h
        dx == AsArray([i \in 1..n |-> SobelX(img, (i - 1) % w, (i - 1) \div w)], n)
        dy == AsArray([i \in 1..n |-> SobelY(img, (i - 1) % w, (i - 1) \div w)], n)
        mag == [w |-> w, h |-> h,
                px |-> AsArray([i \in 1..n |-> Abs(dx[i]) + Abs(dy[i])], n)]
        IsMax(i) ==
            LET x == (i - 1) % w
                y == (i - 1) \div w
                m == mag.px[i]
                ax == Abs(dx[i])
                ay == Abs(dy[i]) * (2 ^ 15)
                tg22x == ax * 13573
                tg67x == tg22x + ax * (2 ^ 16)
                s == IF (dx[i] < 0) # (dy[i] < 0) THEN -1 ELSE 1
            IN  IF ay < tg22x
                THEN m > MagAt(mag, x - 1, y) /\ m >= MagAt(mag, x + 1, y)
                ELSE IF ay > tg67x
                THEN m > MagAt(mag, x, y - 1) /\ m >= MagAt(mag, x, y + 1)
                ELSE m > MagAt(mag, x - s, y - 1) /\ m > MagAt(mag, x + s, y + 1)
        kept   == {i \in 1..n : mag.px[i] > low /\ IsMax(i)}
        strong == {i \in kept : mag.px[i] > high}
        edges  == Linked(w, h, kept, strong)
    IN  [w |-> w, h |-> h,
         px |-> AsArray([i \in 1..n |-> IF i \in edges THEN 255 ELSE 0], n)]

detect_edges(buf) ==
    LET d == imdecode(buf) IN
    IF d.status = "raise" THEN Raised("detect_edges", "cv2.error")
    ELSE IF d.status = "none"
    THEN Returned("detect_edges", NoneArtifact, NoneArtifact, FailedToLoad)
    ELSE LET gray    == cvtColorGRAY(d.img)
             blurred == GaussianBlur(gray)
             edges   == Canny(blurred, 50, 150)
         IN  Returned("detect_edges",
                      [kind |-> "edges", shape |-> <<edges.h, edges.w>>,
                       px |-> edges.px],
                      NoneArtifact, ErrNone)

(***************************************************************************)
(* segment_leaf                                                            *)
(***************************************************************************)
lower_green == [h |-> 25, s |-> 40, v |-> 40]
upper_green == [h |-> 85, s |-> 255, v |-> 255]

\* cv2.inRange(hsv, lower, upper): 255 where every channel is inside the
\* closed range, 0 elsewhere.
inRange(hsv, lower, upper) ==
    [w |-> hsv.w, h |-> hsv.h,
     px |-> AsArray([i \in 1..Len(hsv.px) |->
                IF /\ lower.h <= hsv.px[i].h /\ hsv.px[i].h <= upper.h
                   /\ lower.s <= hsv.px[i].s /\ hsv.px[i].s <= upper.s
                   /\ lower.v <= hsv.px[i].v /\ hsv.px[i].v <= upper.v
                THEN 255 ELSE 0], Len(hsv.px))]

\* the pixels of the 5x5 window centred on pixel i that lie inside the grid
Window5(m, i) ==
    LET x == (i - 1) % m.w
        y == (i - 1) \div m.w
    IN  {j \in 1..Len(m.px) :
            LET xj == (j - 1) % m.w
                yj == (j - 1) \div m.w
            IN  /\ xj - x <= 2 /\ x - xj <= 2
                /\ yj - y <= 2 /\ y - yj <= 2}

\* cv2.dilate / cv2.erode with a 5x5 kernel of ones; pixels outside the
\* grid never decide the result (the default morphology border value).
dilate(m) ==
    [w |-> m.w, h |-> m.h,
     px |-> AsArray([i \in 1..Len(m.px) |->
                IF \E j \in Window5(m, i) : m.px[j] = 255 THEN 255 ELSE 0],
                Len(m.px))]
erode(m) ==
    [w |-> m.w, h |-> m.h,
     px |-> AsArray([i \in 1..Len(m.px) |->
                IF \A j \in Window5(m, i) : m.px[j] = 255 THEN 255 ELSE 0],
                Len(m.px))]

\* cv2.bitwise_and(img, img, mask=mask)
bitwise_and(img, mask) ==
    [w |-> img.w, h |-> img.h,
     px |-> AsArray([i \in 1..Len(img.px) |->
                IF mask.px[i] # 0 THEN img.px[i] ELSE <<0, 0, 0>>],
                Len(img.px))]

segment_leaf(buf) ==
    LET d == imdecode(buf) IN
    IF d.status = "raise" THEN Raised("segment_leaf", "cv2.error")
    ELSE IF d.status = "none"
    THEN Returned("segment_leaf", NoneArtifact, NoneArtifact, FailedToLoad)
    ELSE LET hsv   == cvtColorHSV(d.img)
             mask0 == inRange(hsv, lower_green, upper_green)
             MORPH_CLOSE(m) == erode(dilate(m))
             MORPH_OPEN(m)  == dilate(erode(m))
             mask  == MORPH_OPEN(MORPH_CLOSE(mask0))
             res   == bitwise_and(d.img, mask)
         IN  Returned("segment_leaf",
                      [kind |-> "image", shape |-> <<res.h, res.w, 3>>,
                       px |-> res.px],
                      [kind |-> "mask", shape |-> <<mask.h, mask.w>>,
                       px |-> mask.px],
                      ErrNone)

(***************************************************************************)
(* analyze_leaf_health                                                     *)
(***************************************************************************)
NaN == -1    \* the value of 0/0; no real percentage is negative

\* (variant: the hue range taken as [0, 90])
calcHistHue_halfRange(hsv) ==
    [b \in 0..(HueRange - 1) |->
        Cardinality({i \in 1..Len(hsv.px) : hsv.px[i].h = b /\ b < 90})]

\* (variant: the histogram taken under the segmentation thresholds)
calcHistHue_masked(hsv) ==
    [b \in 0..(HueRange - 1) |->
        Cardinality({i \in 1..Len(hsv.px) :
            /\ hsv.px[i].h = b
            /\ hsv.px[i].s >= 40 /\ hsv.px[i].v >= 40})]

\* (variant: the histogram taken over the non-black pixels only)
calcHistHue_nonblack(hsv) ==
    [b \in 0..(HueRange - 1) |->
        Cardinality({i \in 1..Len(hsv.px) : hsv.px[i].h = b /\ hsv.px[i].v > 0})]

\* cv2.calcHist([hsv], [0], None, [180], [0, 180]): bin b counts the pixels
\* whose hue is b.
calcHistHue(hsv) ==
    [b \in 0..(HueRange - 1) |->
        Cardinality({i \in 1..Len(hsv.px) : hsv.px[i].h = b})]

\* np.sum(hist[lo:hi]) (hi excluded)
RECURSIVE SumSlice(_, _, _)
SumSlice(hist, lo, hi) ==
    IF lo >= hi THEN 0
    ELSE IF hi = lo + 1 THEN hist[lo]
    ELSE LET mid == (lo + hi) \div 2
         IN  SumSlice(hist, lo, mid) + SumSlice(hist, mid, hi)

\* (variant: the green band ending below hue 60)
GreenMass_below60(h_hist) == SumSlice(h_hist, 35, 60)
\* (variant: the green band closed at 85)
GreenMass_closed(h_hist) == SumSlice(h_hist, 35, 86)
\* np.sum(h_hist[35:85])
GreenMass(h_hist) == SumSlice(h_hist, 35, 85)

\* (variant: the yellow band starting at the segmentation's lower hue 25)
YellowMass_from25(h_hist) == SumSlice(h_hist, 25, 35)
\* (variant: the yellow band closed at 35)
YellowMass_closed(h_hist) == SumSlice(h_hist, 15, 36)
\* np.sum(h_hist[15:35])
YellowMass(h_hist) == SumSlice(h_hist, 15, 35)

\* np.sum(h_hist)
TotalMass(h_hist) == SumSlice(h_hist, 0, HueRange)

\* round(float(num / den * 100), 2), in hundredths
Percentage(num, den) ==
    IF den = 0 THEN NaN ELSE RoundDiv(10000 * num, den)

\* (variant: the score without the clamp to 0..100)
HealthScore_unclamped(green, yellow, total) ==
    IF total = 0 THEN 0
    ELSE RoundDiv(100 * (100 * green - 50 * yellow), total)

\* (variant: the yellow share weighted 100 like the green share)
HealthScore_weight100(green, yellow, total) ==
    IF total = 0 THEN 0
    ELSE LET raw == 100 * green - 100 * yellow
             clamped == Min2(100 * total, Max2(0, raw))
         IN  RoundDiv(100 * clamped, total)

\* float(min(100, max(0, green_ratio * 100 - yellow_ratio * 50))) rounded
\* to two decimals, in hundredths.  With 0/0 ratios max(0, nan) is 0.
HealthScore(green, yellow, total) ==
    IF total = 0 THEN 0
    ELSE LET raw == 100 * green - 50 * yellow      \* times total
             clamped == Min2(100 * total, Max2(0, raw))
         IN  RoundDiv(100 * clamped, total)

\* bool(yellow_ratio > 0.3).  yellow_ratio is a numpy.float32 (the
\* histogram is float32) and 0.3 a Python float.  The nearest float32 to
\* 0.3 is 10066330 / 2^25, which is above the double 0.3.
\*   legacy promotion (NumPy 1.x): the float32 is widened to float64, so
\*     the test is float32(y/t) >= 10066330 / 2^25, i.e. y/t is at or above
\*     the rounding boundary 20132659 / 2^26 (the tie rounds to even, up);
\*   weak promotion (NumPy 2, NEP 50): 0.3 is narrowed to float32, so the
\*     test is float32(y/t) >= 10066331 / 2^25, i.e. y/t is above the
\*     rounding boundary 20132661 / 2^26 (the tie rounds to even, down).
YellowAboveThreshold(yellow, total, promo) ==
    IF total = 0 THEN FALSE
    ELSE IF promo = "legacy"
         THEN yellow * (2 ^ 26) >= 20132659 * total
         ELSE yellow * (2 ^ 26) >  20132661 * total

analyze_leaf_health(buf, promo) ==
    LET d == imdecode(buf) IN
    IF d.status = "raise" THEN Raised("analyze_leaf_health", "cv2.error")
    ELSE IF d.status = "none"
    THEN Returned("analyze_leaf_health", NoneArtifact, NoneArtifact, FailedToLoad)
    ELSE LET hsv    == cvtColorHSV(d.img)
             h_hist == calcHistHue(hsv)
             total  == TotalMass(h_hist)
             green  == GreenMass(h_hist)
             yellow == YellowMass(h_hist)
         IN  Returned("analyze_leaf_health",
                 [kind |-> "analysis",
                  health_score |-> HealthScore(green, yellow, total),
                  green_percentage |-> Percentage(green, total),
                  yellow_brown_percentage |-> Percentage(yellow, total),
                  potential_issue |-> YellowAboveThreshold(yellow, total, promo)],
                 NoneArtifact, ErrNone)

(***************************************************************************)
(* get_confidence_threshold.  A probability is an integer number of        *)
(* 1/ProbScale; p < 0.6 is 10 * p < 6 * ProbScale.                         *)
(***************************************************************************)
RECURSIVE npMax(_)
npMax(v) == IF Len(v) = 1 THEN v[1] ELSE Max2(v[1], npMax(Tail(v)))

\* np.argmax: the first index (from 0) holding the maximum
npArgmax(v) == (CHOOSE i \in 1..Len(v) :
                    /\ v[i] = npMax(v)
                    /\ \A j \in 1..(i - 1) : v[j] < v[i]) - 1

\* (variant: the 0.5 cutoff of predict_disease used here too)
get_confidence_threshold_unified(preds) ==
    LET max_confidence == npMax(preds) IN
    [op |-> "get_confidence_threshold",
     known |-> ~(2 * max_confidence < ProbScale),
     max_confidence |-> max_confidence]

get_confidence_threshold(preds) ==
    LET max_confidence == npMax(preds) IN
    IF 10 * max_confidence < 6 * ProbScale
    THEN [op |-> "get_confidence_threshold", known |-> FALSE,
          max_confidence |-> max_confidence]
    ELSE [op |-> "get_confidence_threshold", known |-> TRUE,
          max_confidence |-> max_confidence]

(***************************************************************************)
(* predict.py: class names.  A class name is the sequence of its words     *)
(* and underscores, so that replace() and split() act on it as on the      *)
(* string.  classes.json maps str(index) to the name (train_model.py).     *)
(***************************************************************************)
ClassTable ==
    << <<"Pepper", "_", "_", "bell", "_", "_", "_", "healthy">>,
       <<"Potato", "_", "_", "_", "Early", "_", "blight">>,
       <<"Tomato", "_", "Late", "_", "blight">> >>

\* the keys of the treatments table that the modelled classes can match
TreatmentKeys ==
    { <<"Tomato", "_", "Late", "_", "blight">>,
      <<"Potato", "_", "_", "_", "Early", "_", "blight">>,
      <<"Pepper", "_", "_", "bell", "_", "_", "_", "Bacterial", "_", "spot">> }

Lower(tok) ==
    CASE tok = "Pepper" -> "pepper" [] tok = "Potato" -> "potato"
      [] tok = "Tomato" -> "tomato" [] tok = "Early" -> "early"
      [] tok = "Late" -> "late"     [] tok = "Bacterial" -> "bacterial"
      [] OTHER -> tok
lower(name) == [i \in 1..Len(name) |-> Lower(name[i])]

\* needle in haystack
Contains(haystack, needle) ==
    \E k \in 0..(Len(haystack) - Len(needle)) :
        \A i \in 1..Len(needle) : haystack[k + i] = needle[i]

\* name.replace('_' * n, '_')
RECURSIVE ReplaceUnderscores(_, _)
ReplaceUnderscores(name, n) ==
    IF name = <<>> THEN <<>>
    ELSE IF Len(name) >= n /\ \A i \in 1..n : name[i] = "_"
    THEN <<"_">> \o ReplaceUnderscores(SubSeq(name, n + 1, Len(name)), n)
    ELSE <<Head(name)>> \o ReplaceUnderscores(Tail(name), n)

\* name.split('_'): the words between the underscores; an empty word is ""
RECURSIVE SplitUnderscore(_, _)
SplitUnderscore(name, word) ==
    IF name = <<>> THEN <<word>>
    ELSE IF Head(name) = "_"
    THEN <<word>> \o SplitUnderscore(Tail(name), "")
    ELSE SplitUnderscore(Tail(name), Head(name))

get_treatment(disease_name) ==
    IF \E key \in TreatmentKeys : Contains(lower(disease_name), lower(key))
    THEN [precautions_for |->
            CHOOSE key \in TreatmentKeys :
                Contains(lower(disease_name), lower(key))]
    ELSE [precautions_for |-> <<"default">>]

(***************************************************************************)
(* load_model: the new values of the globals and what the call does.       *)
(* tf.keras.models.load_model runs before classes.json is opened; an       *)
(* unreadable classes.json raises out of load_model after `model` is set.  *)
(***************************************************************************)
load_model(m, cn, mfile, cfile) ==
    IF m = "None"
    THEN IF mfile
         THEN IF cfile
              THEN [result |-> "True", model |-> "loaded", class_names |-> "loaded"]
              ELSE [result |-> "raised", model |-> "loaded", class_names |-> cn]
         ELSE [result |-> "False", model |-> m, class_names |-> cn]
    ELSE [result |-> "True", model |-> m, class_names |-> cn]

(***************************************************************************)
(* Preprocessing for the classifier.                                       *)
(***************************************************************************)
\* preprocess_with_opencv: "ok", "err" (returned (None, err)) or "raise"
preprocess_with_opencv(tsize, buf) ==
    LET e == enhance_image(buf) IN
    IF e.outcome = "raised" THEN "raise"
    ELSE IF e.error # ErrNone THEN "err"
    ELSE LET q == preprocess_image(tsize, buf) IN
         IF q.outcome = "raised" THEN "raise"
         ELSE IF q.error # ErrNone THEN "err"
         ELSE "ok"

\* preprocess_image_pil: PIL opens what decodes and raises on the rest
preprocess_image_pil(buf) == IF buf.kind = "image" THEN "ok" ELSE "raise"

analyze_with_opencv(buf, promo) ==
    LET a == analyze_leaf_health(buf, promo) IN
    IF a.outcome = "raised" THEN NoneArtifact
    ELSE IF a.error # ErrNone THEN NoneArtifact
    ELSE a.artifact

(***************************************************************************)
(* predict_disease.  preds is what model.predict yields for the input.     *)
(* The record says how the call ended and whether model.predict ran.       *)
(***************************************************************************)
PredictFailure(predicted, error) ==
    [outcome |-> "returned", predicted |-> predicted, success |-> FALSE,
     error |-> error]

\* f"{confidence * 100:.1f}%", in tenths of a percent
FormatConfidence(p) == RoundDiv(1000 * p, ProbScale)

predict_body(buf, promo, tsize, preds, cn) ==
    LET pre == preprocess_with_opencv(tsize, buf) IN
    IF pre = "raise" THEN PredictFailure(FALSE, "cv2.error")
    ELSE IF pre = "err" /\ preprocess_image_pil(buf) = "raise"
    THEN PredictFailure(FALSE, "cannot identify image file")
    ELSE
    LET predicted_class_idx == npArgmax(preds)
        confidence == preds[predicted_class_idx + 1]
    IN  IF 2 * confidence < ProbScale
        THEN [outcome |-> "returned", predicted |-> TRUE, success |-> TRUE,
              plantName |-> <<"Unknown Plant">>,
              disease |-> <<"Not in database">>,
              confidence |-> FormatConfidence(confidence),
              treatment |-> [precautions_for |-> <<"not in database">>],
              isUnknown |-> TRUE,
              healthAnalysis |-> analyze_with_opencv(buf, promo)]
        ELSE IF cn = "None"
        THEN PredictFailure(TRUE, "'NoneType' object is not subscriptable")
        ELSE
        LET disease_name == ClassTable[predicted_class_idx + 1]
            parts == SplitUnderscore(
                        ReplaceUnderscores(
                            ReplaceUnderscores(disease_name, 3), 2), "")
            plant_name == parts[1]
            healthy == Contains(lower(disease_name), <<"healthy">>)
        IN  [outcome |-> "returned", predicted |-> TRUE, success |-> TRUE,
             plantName |-> <<plant_name, "Leaf">>,
             disease |-> IF healthy THEN <<"Healthy">>
                         ELSE IF Len(parts) > 1 THEN Tail(parts)
                         ELSE disease_name,
             confidence |-> FormatConfidence(confidence),
             treatment |-> IF healthy
                           THEN [precautions_for |-> <<"healthy">>]
                           ELSE get_treatment(disease_name),
             rawClass |-> disease_name,
             isUnknown |-> FALSE,
             healthAnalysis |-> analyze_with_opencv(buf, promo)]

predict_disease(buf, promo, tsize, preds, loaded) ==
    IF loaded.result = "raised"
    THEN [outcome |-> "raised", predicted |-> FALSE, success |-> FALSE,
          error |-> "FileNotFoundError"]
    ELSE IF loaded.result = "False"
    THEN PredictFailure(FALSE, "Model not loaded. Please train the model first.")
    ELSE predict_body(buf, promo, tsize, preds, loaded.class_names)

(***************************************************************************)
(* database.py: the SQLite tables as sets of rows.  Python's None and SQL  *)
(* NULL are the string "None".  A users row keeps the columns the code     *)
(* reads or writes (created_at is never read).                             *)
(***************************************************************************)
\* session.get('user_id') of a session without the key: no row has the id 0
NoUser == 0

Emails == {"ann@x.in", "bob@x.in"}

\* INSERT INTO users fails on NOT NULL (name, email, password) and on
\* UNIQUE (email)
IntegrityError(tbl, name, email, password) ==
    \/ name = "None" \/ email = "None" \/ password = "None"
    \/ \E u \in tbl : u.email = email

\* id INTEGER PRIMARY KEY AUTOINCREMENT: one more than the largest id the
\* table ever held
lastrowid(seq) == seq + 1

EmailExists == [success |-> FALSE, error |-> "Email already exists"]

\* create_user as one transaction: the result and the table after it
create_user(tbl, seq, name, email, password, phone, dob, gender) ==
    IF IntegrityError(tbl, name, email, password)
    THEN [result |-> EmailExists, users |-> tbl, seq |-> seq]
    ELSE [result |-> [success |-> TRUE, user_id |-> lastrowid(seq),
                      message |-> "Account created successfully"],
          users |-> tbl \cup {[id |-> lastrowid(seq), name |-> name,
                               email |-> email, password |-> password,
                               phone |-> phone, dob |-> dob,
                               gender |-> gender]},
          seq |-> lastrowid(seq)]

\* SELECT * FROM users WHERE email = ? AND password = ?; fetchone()
login_user(tbl, email, password) ==
    LET found == {u \in tbl : u.email = email /\ u.password = password} IN
    IF found # {}
    THEN LET user == CHOOSE u \in found : \A v \in found : u.id <= v.id
         IN  [success |-> TRUE,
              user |-> [id |-> user.id, name |-> user.name,
                        email |-> user.email]]
    ELSE [success |-> FALSE, error |-> "Invalid email or password"]

\* (variant: UPDATE users SET password = ? without the WHERE clause)
reset_password_allRows(tbl, email, new_password) ==
    IF ~\E u \in tbl : u.email = email
    THEN [result |-> [success |-> FALSE, error |-> "Email not found"],
          users |-> tbl]
    ELSE [result |-> [success |-> TRUE,
                      message |-> "Password reset successfully"],
          users |-> {[u EXCEPT !.password = new_password] : u \in tbl}]

\* reset_password: the result and the table after it
reset_password(tbl, email, new_password) ==
    IF ~\E u \in tbl : u.email = email
    THEN [result |-> [success |-> FALSE, error |-> "Email not found"],
          users |-> tbl]
    ELSE [result |-> [success |-> TRUE,
                      message |-> "Password reset successfully"],
          users |-> {IF u.email = email
                     THEN [u EXCEPT !.password = new_password] ELSE u :
                     u \in tbl}]

\* update_user: only the truthy arguments are written, to the row with the
\* given id; an id no row has updates nothing and still succeeds
update_user(tbl, user_id, name, phone, dob, gender) ==
    LET Truthy(v) == v # "None" /\ v # "" IN
    IF ~(Truthy(name) \/ Truthy(phone) \/ Truthy(dob) \/ Truthy(gender))
    THEN [result |-> [success |-> FALSE, error |-> "No fields to update"],
          users |-> tbl]
    ELSE [result |-> [success |-> TRUE,
                      message |-> "User updated successfully"],
          users |-> {IF u.id = user_id
                     THEN [u EXCEPT
                             !.name = IF Truthy(name) THEN name ELSE @,
                             !.phone = IF Truthy(phone) THEN phone ELSE @,
                             !.dob = IF Truthy(dob) THEN dob ELSE @,
                             !.gender = IF Truthy(gender) THEN gender ELSE @]
                     ELSE u : u \in tbl}]

\* get_user_by_email: the row, or None
get_user_by_email(tbl, email) ==
    IF \E u \in tbl : u.email = email
    THEN CHOOSE u \in tbl : u.email = email
    ELSE NoneArtifact

\* (variant: delete_user without DELETE FROM chat_history)
delete_user_keepChats(tbl, diagnoses, chats, user_id) ==
    [result |-> [success |-> TRUE,
                 message |-> "User and related data deleted successfully"],
     users |-> {u \in tbl : u.id # user_id},
     diagnosis_history |-> {d \in diagnoses : d.user_id # user_id},
     chat_history |-> chats]

\* delete_user: the rows of the user in the three tables, in one
\* transaction
delete_user(tbl, diagnoses, chats, user_id) ==
    [result |-> [success |-> TRUE,
                 message |-> "User and related data deleted successfully"],
     users |-> {u \in tbl : u.id # user_id},
     diagnosis_history |-> {d \in diagnoses : d.user_id # user_id},
     chat_history |-> {c \in chats : c.user_id # user_id}]

(***************************************************************************)
(* app.py.  The session is the signed cookie of one client: a dict, here a *)
(* function from its keys.  A path is the list of its segments.  A         *)
(* response is a record: ran says whether the view function was run.       *)
(***************************************************************************)
EmptySession == [k \in {} |-> "None"]

SessionOf(user) ==
    [user_id |-> user.id, user_name |-> user.name, user_email |-> user.email]

\* session.get(key)
SessionGet(sess, key, default) ==
    IF key \in DOMAIN sess THEN sess[key] ELSE default

jsonify(path, status, ran, body) ==
    [path |-> path, status |-> status, kind |-> "json", ran |-> ran,
     body |-> body]
render_template(path, template) ==
    [path |-> path, status |-> 200, kind |-> "html", ran |-> TRUE,
     body |-> [template |-> template]]
redirect(path, ran, endpoint) ==
    [path |-> path, status |-> 302, kind |-> "redirect", ran |-> ran,
     body |-> [location |-> endpoint]]

\* request.path.startswith('/api/')
StartsWithApi(path) == Len(path) > 1 /\ path[1] = "api"

\* the value of db_ret before any call
NoResult == [success |-> FALSE, error |-> "no call"]

\* the web application after start-up: init_db() on a fresh file, an empty
\* upload folder, a client without a cookie that has sent no request
WebIdle ==
    /\ users = {}
    /\ diagnosis_history = {}
    /\ chat_history = {}
    /\ sqlite_sequence = [users |-> 0, diagnosis_history |-> 0, chat_history |-> 0]
    /\ session = EmptySession
    /\ uploads = {}
    /\ clock = 0
    /\ response = [path |-> <<>>, status |-> 0, kind |-> "none", ran |-> FALSE,
                   body |-> [none |-> TRUE]]
    /\ logins = <<>>
    /\ creating = <<>>
    /\ db_ret = NoResult

(***************************************************************************)
(* The state machine.                                                      *)
(***************************************************************************)
Image1x1(c) == Buffer("image", 1, 1, <<c>>)
PredictBuffers ==
    {EmptyBuffer, GarbageBuffer, Image1x1(PureGreen), Image1x1(YellowBrown)}

\* ImageProcessor.__init__ and the module globals of predict.py
Constructed ==
    /\ target_size = <<224, 224>>
    /\ ret = NoCall
    /\ calls = <<>>
    /\ model = "None"
    /\ class_names = "None"
    /\ load_ret = "none"
    /\ gate_ret = [op |-> "none", known |-> FALSE, max_confidence |-> 0]
    /\ predict_ret = [outcome |-> "none", predicted |-> FALSE,
                      success |-> FALSE, error |-> ErrNone]

\* the image pipeline, called directly on one input buffer
Init ==
    /\ Constructed
    /\ WebIdle
    /\ threads = <<>>
    /\ image_bytes \in Buffers
    /\ promotion \in {"legacy", "weak"}
    /\ predictions = [i \in 1..Len(ClassTable) |-> IF i = 1 THEN ProbScale ELSE 0]
    /\ model_file = FALSE
    /\ classes_file = FALSE

\* a method of the shared instance called on the caller's buffer: the
\* method writes neither the buffer nor a field of the instance
PipelineCall(r) ==
    /\ ret' = r
    /\ calls' = Append(calls, [op |-> r.op, input |-> image_bytes, outcome |-> r])
    /\ UNCHANGED <<threads, image_bytes, promotion, target_size, predictions, model,
                   class_names, model_file, classes_file, load_ret, gate_ret,
                   predict_ret>>
    /\ UNCHANGED webVars

\* (variant: the input's size kept in self.target_size)
PreprocessImage_storing ==
    /\ ret' = preprocess_image(target_size, image_bytes)
    /\ calls' = Append(calls, [op |-> "preprocess_image", input |-> image_bytes,
                               outcome |-> ret'])
    /\ target_size' = IF image_bytes.kind = "image"
                      THEN <<image_bytes.w, image_bytes.h>> ELSE target_size
    /\ UNCHANGED <<threads, image_bytes, promotion, predictions, model,
                   class_names, model_file, classes_file, load_ret, gate_ret,
                   predict_ret>>
    /\ UNCHANGED webVars

PreprocessImage   == PipelineCall(preprocess_image(target_size, image_bytes))
EnhanceImage      == PipelineCall(enhance_image(image_bytes))
DetectEdges       == PipelineCall(detect_edges(image_bytes))
SegmentLeaf       == PipelineCall(segment_leaf(image_bytes))

\* (variant: the analysis of the previous call kept and handed out again)
AnalyzeLeafHealth_cached ==
    PipelineCall(IF /\ calls # <<>>
                    /\ calls[Len(calls)].op = "analyze_leaf_health"
                    /\ calls[Len(calls)].outcome.outcome = "returned"
                    /\ imdecode(image_bytes).status = "ok"
                 THEN calls[Len(calls)].outcome
                 ELSE analyze_leaf_health(image_bytes, promotion))

AnalyzeLeafHealth == PipelineCall(analyze_leaf_health(image_bytes, promotion))

\* one request: the caller makes one pipeline call on its buffer
Next ==
    \/ ret = NoCall /\ PreprocessImage
    \/ ret = NoCall /\ EnhanceImage
    \/ ret = NoCall /\ DetectEdges
    \/ ret = NoCall /\ SegmentLeaf
    \/ ret = NoCall /\ AnalyzeLeafHealth

Spec == Init /\ [][Next]_vars

\* a run of calls: the caller hands the shared instance one buffer after
\* another (predict.py passes the image_bytes of each request)
NewRequest ==
    /\ image_bytes' \in PredictBuffers \ {image_bytes}
    /\ ret' = NoCall
    /\ UNCHANGED <<threads, promotion, target_size, calls, predictions, model,
                   class_names, model_file, classes_file, load_ret, gate_ret,
                   predict_ret>>
    /\ UNCHANGED webVars

InitSeq ==
    /\ Constructed
    /\ WebIdle
    /\ threads = <<>>
    /\ image_bytes \in PredictBuffers
    /\ promotion \in {"legacy", "weak"}
    /\ predictions = [i \in 1..Len(ClassTable) |-> IF i = 1 THEN ProbScale ELSE 0]
    /\ model_file = FALSE
    /\ classes_file = FALSE

NextSeq ==
    \/ Len(calls) < MaxCalls /\ PreprocessImage
    \/ Len(calls) < MaxCalls /\ EnhanceImage
    \/ Len(calls) < MaxCalls /\ DetectEdges
    \/ Len(calls) < MaxCalls /\ SegmentLeaf
    \/ Len(calls) < MaxCalls /\ AnalyzeLeafHealth
    \/ NewRequest

SpecSeq == InitSeq /\ [][NextSeq]_vars

\* The four analysis paths called at the same time on one buffer, each on
\* its own thread.  A thread holds the locals of its call: the decoded
\* array img and, at the end, what the call returned or raised.
AnalysisPaths == <<"preprocess_image", "enhance_image", "analyze_leaf_health",
                   "detect_edges">>

Threads == 1..Len(AnalysisPaths)

\* the encoded form of a thread's own decoded array
OwnArray(img) == Buffer("image", img.w, img.h, img.px)

\* nparr = np.frombuffer(image_bytes, np.uint8); img = cv2.imdecode(...);
\* if img is None: return None, "Failed to load image"
DecodeStep(t) ==
    LET d  == imdecode(image_bytes)
        th == threads[t]
    IN
    /\ th.pc = "start"
    /\ threads' = [threads EXCEPT ![t] =
          IF d.status = "raise"
          THEN [th EXCEPT !.pc = "done", !.ret = Raised(th.op, "cv2.error")]
          ELSE IF d.status = "none"
          THEN [th EXCEPT !.pc = "done",
                          !.ret = Returned(th.op, NoneArtifact, NoneArtifact,
                                           FailedToLoad)]
          ELSE [th EXCEPT !.pc = "decoded", !.img = d.img]]
    /\ UNCHANGED <<image_bytes, promotion, target_size, ret, calls, predictions,
                   model, class_names, model_file, classes_file, load_ret,
                   gate_ret, predict_ret>>
    /\ UNCHANGED webVars

\* (variant: the size of the decoded array kept in self.target_size)
TransformStep_sharing(t) ==
    /\ threads[t].pc = "decoded"
    /\ threads' = [threads EXCEPT ![t] =
          LET th == threads[t] IN
          IF th.op = "preprocess_image"
          THEN [th EXCEPT !.pc = "denoised",
                          !.img = fastNlMeansDenoisingColored(cvtColorRGB(th.img))]
          ELSE [th EXCEPT !.pc = "done",
                          !.ret = CASE th.op = "enhance_image" ->
                                         enhance_image(OwnArray(th.img))
                                    [] th.op = "detect_edges" ->
                                         detect_edges(OwnArray(th.img))
                                    [] OTHER ->
                                         analyze_leaf_health(OwnArray(th.img),
                                                             promotion)]]
    /\ target_size' = <<threads[t].img.w, threads[t].img.h>>
    /\ UNCHANGED <<image_bytes, promotion, ret, calls, predictions,
                   model, class_names, model_file, classes_file, load_ret,
                   gate_ret, predict_ret>>
    /\ UNCHANGED webVars

\* the transforms of the method on the thread's own array, up to the
\* return; preprocess_image stops before its resize, which reads the
\* instance
TransformStep(t) ==
    /\ threads[t].pc = "decoded"
    /\ threads' = [threads EXCEPT ![t] =
          LET th == threads[t] IN
          IF th.op = "preprocess_image"
          THEN [th EXCEPT !.pc = "denoised",
                          !.img = fastNlMeansDenoisingColored(cvtColorRGB(th.img))]
          ELSE [th EXCEPT !.pc = "done",
                          !.ret = CASE th.op = "enhance_image" ->
                                         enhance_image(OwnArray(th.img))
                                    [] th.op = "detect_edges" ->
                                         detect_edges(OwnArray(th.img))
                                    [] OTHER ->
                                         analyze_leaf_health(OwnArray(th.img),
                                                             promotion)]]
    /\ UNCHANGED <<image_bytes, promotion, target_size, ret, calls, predictions,
                   model, class_names, model_file, classes_file, load_ret,
                   gate_ret, predict_ret>>
    /\ UNCHANGED webVars

\* img_resized = cv2.resize(img_denoised, self.target_size);
\* return img_resized / 255.0, None
ResizeStep(t) ==
    LET th == threads[t] IN
    /\ th.pc = "denoised"
    /\ threads' = [threads EXCEPT ![t] =
          [th EXCEPT !.pc = "done",
                     !.ret = Returned(th.op,
                                      Normalize(resize(th.img, target_size)),
                                      NoneArtifact, ErrNone)]]
    /\ UNCHANGED <<image_bytes, promotion, target_size, ret, calls, predictions,
                   model, class_names, model_file, classes_file, load_ret,
                   gate_ret, predict_ret>>
    /\ UNCHANGED webVars

InitConc ==
    /\ Constructed
    /\ WebIdle
    /\ threads = [t \in Threads |->
                    [op |-> AnalysisPaths[t], pc |-> "start",
                     img |-> NoneArtifact, ret |-> NoCall]]
    /\ image_bytes \in PredictBuffers \cup
           {Buffer("image", 3, 2, TwoTone(6, 2, PureGreen, YellowBrown))}
    /\ promotion \in {"legacy", "weak"}
    /\ predictions = [i \in 1..Len(ClassTable) |-> IF i = 1 THEN ProbScale ELSE 0]
    /\ model_file = FALSE
    /\ classes_file = FALSE

NextConc ==
    \E t \in Threads :
        \/ DecodeStep(t)
        \/ TransformStep(t)
        \/ ResizeStep(t)

SpecConc == InitConc /\ [][NextConc]_vars

\* the edge detector, called on a square frame
InitEdges ==
    /\ Constructed
    /\ WebIdle
    /\ threads = <<>>
    /\ image_bytes \in EdgeFrames
    /\ promotion \in {"legacy", "weak"}
    /\ predictions = [i \in 1..Len(ClassTable) |-> IF i = 1 THEN ProbScale ELSE 0]
    /\ model_file = FALSE
    /\ classes_file = FALSE

NextEdges == ret = NoCall /\ DetectEdges

SpecEdges == InitEdges /\ [][NextEdges]_vars

\* the prediction service with its lazily loaded classifier
InitPredict ==
    /\ Constructed
    /\ WebIdle
    /\ threads = <<>>
    /\ image_bytes \in PredictBuffers
    /\ promotion \in {"legacy", "weak"}
    /\ predictions \in     \* the outputs of a softmax over the modelled classes
         {v \in [1..Len(ClassTable) -> 0..ProbScale] : SumSeq(v) = ProbScale}
    /\ model_file \in BOOLEAN
    /\ classes_file \in BOOLEAN

LoadModel ==
    LET l == load_model(model, class_names, model_file, classes_file) IN
    /\ model' = l.model
    /\ class_names' = l.class_names
    /\ load_ret' = l.result
    /\ UNCHANGED <<threads, image_bytes, promotion, target_size, ret, calls, predictions,
                   model_file, classes_file, gate_ret, predict_ret>>
    /\ UNCHANGED webVars

PredictDisease ==
    LET l == load_model(model, class_names, model_file, classes_file) IN
    /\ model' = l.model
    /\ class_names' = l.class_names
    /\ predict_ret' = predict_disease(image_bytes, promotion, target_size,
                                      predictions, l)
    /\ UNCHANGED <<threads, image_bytes, promotion, target_size, ret, calls, predictions,
                   model_file, classes_file, load_ret, gate_ret>>
    /\ UNCHANGED webVars

GetConfidenceThreshold ==
    /\ gate_ret' = get_confidence_threshold(predictions)
    /\ UNCHANGED <<threads, image_bytes, promotion, target_size, ret, calls, predictions,
                   model, class_names, model_file, classes_file, load_ret,
                   predict_ret>>
    /\ UNCHANGED webVars

NextPredict ==
    \/ LoadModel
    \/ PredictDisease
    \/ GetConfidenceThreshold

SpecPredict == InitPredict /\ [][NextPredict]_vars

\* CURRENT_TIMESTAMP of an insert: the clock has moved on by a second or not
Timestamps == {clock, Min2(clock + 1, MaxClock)}

\* (variant: the row is stored without the user's id)
save_diagnosis_anonymous(seq, now, user_id, plant_name, disease, confidence, treatment, image_path, health_score, is_unknown) ==
    [id |-> lastrowid(seq), user_id |-> NoUser, plant_name |-> plant_name,
     disease |-> disease, confidence |-> confidence, treatment |-> treatment,
     image_path |-> image_path, health_score |-> health_score,
     is_unknown |-> IF is_unknown = "True" THEN 1 ELSE 0,
     created_at |-> now]

\* save_diagnosis: the row appended to diagnosis_history
save_diagnosis(seq, now, user_id, plant_name, disease, confidence, treatment, image_path, health_score, is_unknown) ==
    [id |-> lastrowid(seq), user_id |-> user_id, plant_name |-> plant_name,
     disease |-> disease, confidence |-> confidence, treatment |-> treatment,
     image_path |-> image_path, health_score |-> health_score,
     is_unknown |-> IF is_unknown = "True" THEN 1 ELSE 0,
     created_at |-> now]

\* save_chat: the row appended to chat_history
save_chat(seq, now, user_id, message, reply) ==
    [id |-> lastrowid(seq), user_id |-> user_id, message |-> message,
     response |-> reply, created_at |-> now]

\* SELECT ... ORDER BY created_at DESC LIMIT ?: the sequences the query can
\* return; rows inserted within the same second come in either order
RECURSIVE OrderedDesc(_, _)
OrderedDesc(rows, limit) ==
    IF rows = {} \/ limit = 0 THEN {<<>>}
    ELSE UNION {{<<r>> \o rest : rest \in OrderedDesc(rows \ {r}, limit - 1)} :
                    r \in {x \in rows : \A y \in rows : y.created_at <= x.created_at}}

\* (variant: the query without WHERE user_id = ?)
get_diagnosis_history_allUsers(diagnoses, user_id, limit) ==
    OrderedDesc(diagnoses, limit)

\* get_diagnosis_history(user_id, limit): `if user_id:` is false for None
\* (here 0), which selects the rows of every user
get_diagnosis_history(diagnoses, user_id, limit) ==
    IF user_id # NoUser
    THEN OrderedDesc({d \in diagnoses : d.user_id = user_id}, limit)
    ELSE OrderedDesc(diagnoses, limit)

\* get_diagnosis_stats(user_id): `disease != "Healthy"` is NULL, not true,
\* for a row whose disease is NULL, so WHERE leaves the row out
get_diagnosis_stats(diagnoses, user_id) ==
    LET mine == IF user_id # NoUser
                THEN {d \in diagnoses : d.user_id = user_id} ELSE diagnoses
        total == Cardinality(mine)
        diseased == Cardinality({d \in mine :
                        /\ d.disease # "None"
                        /\ d.disease # "Healthy"
                        /\ d.is_unknown = 0})
    IN  [total_scans |-> total, diseased_plants |-> diseased,
         healthy_plants |-> total - diseased]

\* a handler that only answers
Respond(r) ==
    /\ response' = r
    /\ UNCHANGED <<session, users, diagnosis_history, chat_history,
                   sqlite_sequence, uploads, clock, logins, creating, db_ret>>
    /\ UNCHANGED pipelineVars

\* (variant: the check left out for the API routes)
login_required_pagesOnly(path, f) ==
    IF "user_id" \notin DOMAIN session /\ ~StartsWithApi(path)
    THEN Respond(redirect(path, FALSE, "login"))
    ELSE f

\* the decorator: f is the action of the wrapped view function
login_required(path, f) ==
    IF "user_id" \notin DOMAIN session
    THEN IF StartsWithApi(path)
         THEN Respond(jsonify(path, 401, FALSE,
                              [success |-> FALSE, error |-> "Please login first"]))
         ELSE Respond(redirect(path, FALSE, "login"))
    ELSE f

\* index ("/") and login ("/login")
LoginPage(path) ==
    IF "user_id" \in DOMAIN session
    THEN Respond(redirect(path, TRUE, "home"))
    ELSE Respond(render_template(path, "login.html"))

\* forgot_password
ForgotPassword ==
    Respond(render_template(<<"forgot-password">>, "forgot_password.html"))

\* home, diagnosis, chat and history: each renders the template of its name
ProtectedPage(name) ==
    login_required(<<name>>, Respond(render_template(<<name>>, name)))

\* a request without a JSON body: request.json aborts the request (415) or
\* is None, and data.get raises (500), depending on the Flask release
NoJson == [json |-> FALSE]
JsonAbort(path) ==
    \E status \in {415, 500} :
        Respond([path |-> path, status |-> status, kind |-> "error",
                 ran |-> TRUE, body |-> [aborted |-> TRUE]])

\* api_signup; data.get(key, '') gives '' for a missing key
ApiSignup(data) ==
    LET path == <<"api", "signup">> IN
    IF data = NoJson THEN JsonAbort(path)
    ELSE IF data.email = "" \/ data.password = ""
    THEN Respond(jsonify(path, 200, TRUE,
                 [success |-> FALSE, error |-> "Email and password required"]))
    ELSE LET c == create_user(users, sqlite_sequence.users, data.name,
                              data.email, data.password, data.phone,
                              data.dob, data.gender)
         IN  /\ users' = c.users
             /\ sqlite_sequence' = [sqlite_sequence EXCEPT !.users = c.seq]
             /\ response' = jsonify(path, 200, TRUE, c.result)
             /\ UNCHANGED <<session, diagnosis_history, chat_history, uploads,
                            clock, logins, creating, db_ret>>
             /\ UNCHANGED pipelineVars

\* api_login
ApiLogin(data) ==
    LET path == <<"api", "login">> IN
    IF data = NoJson
    THEN /\ \E status \in {415, 500} :
               response' = [path |-> path, status |-> status, kind |-> "error",
                            ran |-> TRUE, body |-> [aborted |-> TRUE]]
         /\ logins' = Append(logins, [route |-> "api_login", data |-> data,
                                      result |-> [success |-> FALSE,
                                                  error |-> "aborted"]])
         /\ UNCHANGED <<session, users, diagnosis_history, chat_history,
                        sqlite_sequence, uploads, clock, creating, db_ret>>
         /\ UNCHANGED pipelineVars
    ELSE LET result == login_user(users, data.email, data.password) IN
         /\ session' = IF result.success THEN SessionOf(result.user)
                       ELSE session
         /\ response' = jsonify(path, 200, TRUE, result)
         /\ logins' = Append(logins, [route |-> "api_login", data |-> data,
                                      result |-> result])
         /\ UNCHANGED <<users, diagnosis_history, chat_history,
                        sqlite_sequence, uploads, clock, creating, db_ret>>
         /\ UNCHANGED pipelineVars

\* (variant: session.pop('user_id') in place of session.clear())
ApiLogout_popUserId ==
    LET result == [success |-> TRUE, message |-> "Logged out"] IN
    /\ session' = [k \in DOMAIN session \ {"user_id"} |-> session[k]]
    /\ response' = jsonify(<<"api", "logout">>, 200, TRUE, result)
    /\ logins' = Append(logins, [route |-> "api_logout", data |-> NoJson,
                                 result |-> result])
    /\ UNCHANGED <<users, diagnosis_history, chat_history, sqlite_sequence,
                   uploads, clock, creating, db_ret>>
    /\ UNCHANGED pipelineVars

\* api_logout
ApiLogout ==
    LET result == [success |-> TRUE, message |-> "Logged out"] IN
    /\ session' = EmptySession
    /\ response' = jsonify(<<"api", "logout">>, 200, TRUE, result)
    /\ logins' = Append(logins, [route |-> "api_logout", data |-> NoJson,
                                 result |-> result])
    /\ UNCHANGED <<users, diagnosis_history, chat_history, sqlite_sequence,
                   uploads, clock, creating, db_ret>>
    /\ UNCHANGED pipelineVars

\* len(new_password) of the passwords the requests carry
len(s) == CASE s = "" -> 0 [] s = "abc" -> 3 [] OTHER -> 6

\* api_reset_password
ApiResetPassword(data) ==
    LET path == <<"api", "reset-password">> IN
    IF data = NoJson THEN JsonAbort(path)
    ELSE IF data.email = "" \/ data.newPassword = ""
    THEN Respond(jsonify(path, 200, TRUE,
                 [success |-> FALSE, error |-> "Email and new password required"]))
    ELSE IF len(data.newPassword) < 4
    THEN Respond(jsonify(path, 200, TRUE,
                 [success |-> FALSE,
                  error |-> "Password must be at least 4 characters"]))
    ELSE LET r == reset_password(users, data.email, data.newPassword) IN
         /\ users' = r.users
         /\ response' = jsonify(path, 200, TRUE, r.result)
         /\ UNCHANGED <<session, diagnosis_history, chat_history,
                        sqlite_sequence, uploads, clock, logins, creating,
                        db_ret>>
         /\ UNCHANGED pipelineVars

\* api_user
ApiUser ==
    login_required(<<"api", "user">>,
        Respond(jsonify(<<"api", "user">>, 200, TRUE,
            [success |-> TRUE,
             user |-> [id |-> SessionGet(session, "user_id", NoUser),
                       name |-> SessionGet(session, "user_name", "None"),
                       email |-> SessionGet(session, "user_email", "None")]])))

\* the JSON object the vision model is asked for; a key may be "absent"
GeminiObject(plantName, disease, confidence, treatment, health_score, isUnknown) ==
    [plantName |-> plantName, disease |-> disease, confidence |-> confidence,
     treatment |-> treatment, health_score |-> health_score,
     isUnknown |-> isUnknown]
EmptyObject ==
    GeminiObject("absent", "absent", "absent", "absent", "absent", "absent")
GeminiObjects ==
    {GeminiObject("Tomato", "Early Blight", "92%", "Remove the leaves", "40", "False"),
     GeminiObject("Rose", "Healthy", "95%", "Water weekly", "100", "False"),
     GeminiObject("Unknown", "N/A", "0%", "", "absent", "True"),
     GeminiObject("Fern", "None", "50%", "", "absent", "False"),
     EmptyObject}

\* result.get(key, default)
Get(obj, key, default) == IF obj[key] = "absent" THEN default ELSE obj[key]

\* what the Gemini client does in a request: the package is missing, the key
\* is not set, generate_content raises, the answer has no text (blocked or
\* empty), the text is not JSON, the JSON is not an object, the object holds
\* a value SQLite cannot bind, or the object is one of GeminiObjects
GeminiReplies ==
    {[kind |-> k, obj |-> EmptyObject] :
        k \in {"import_error", "no_key", "raise", "blocked", "no_text",
               "bad_json", "not_object", "unbindable"}}
        \cup {[kind |-> "object", obj |-> o] : o \in GeminiObjects}

\* api_analyze; file is the part "image" of the upload (NoneArtifact: there
\* is no such part).  The file is named
\* f"scan_{len(os.listdir(UPLOAD_FOLDER))}_{session.get('user_id')}.jpg" and
\* written (created or replaced) before the model is asked
ApiAnalyze(file, gemini) ==
    LET path == <<"api", "analyze">>
        user_id == SessionGet(session, "user_id", NoUser)
        image_path == <<"scan", Cardinality(uploads), user_id>>
        written == {f \in uploads : f.name # image_path}
                       \cup {[name |-> image_path, content |-> file]}
        Fail(files, error) ==
            /\ uploads' = files
            /\ response' = jsonify(path, 200, TRUE,
                                   [success |-> FALSE, error |-> error])
            /\ UNCHANGED <<session, users, diagnosis_history, chat_history,
                           sqlite_sequence, clock, logins, creating, db_ret>>
            /\ UNCHANGED pipelineVars
    IN  login_required(path,
        IF file = NoneArtifact THEN Fail(uploads, "No image provided")
        ELSE IF gemini.kind = "import_error" THEN Fail(written, "str(e)")
        ELSE IF gemini.kind = "no_key"
        THEN Fail(written, "Gemini API Key not found")
        ELSE IF file.kind # "image" \/ gemini.kind = "raise"
        THEN Fail(written, "str(e)")
        ELSE IF gemini.kind = "blocked"
        THEN Fail(written, "Image blocked due to safety filters")
        ELSE IF gemini.kind = "no_text"
        THEN Fail(written, "No text returned from AI")
        ELSE IF gemini.kind = "bad_json"
        THEN Fail(written, "Failed to parse AI response")
        ELSE IF gemini.kind \in {"not_object", "unbindable"}
        THEN Fail(written, "str(e)")
        ELSE \E now \in Timestamps :
            /\ uploads' = written
            /\ diagnosis_history' = diagnosis_history \cup
                 {save_diagnosis(sqlite_sequence.diagnosis_history, now, user_id,
                                 Get(gemini.obj, "plantName", "Unknown"),
                                 Get(gemini.obj, "disease", "Unknown"),
                                 Get(gemini.obj, "confidence", "0%"),
                                 Get(gemini.obj, "treatment", ""),
                                 image_path,
                                 Get(gemini.obj, "health_score", "None"),
                                 Get(gemini.obj, "isUnknown", "False"))}
            /\ sqlite_sequence' =
                 [sqlite_sequence EXCEPT !.diagnosis_history = lastrowid(@)]
            /\ clock' = now
            /\ response' = jsonify(path, 200, TRUE,
                                   [success |-> TRUE, result |-> gemini.obj])
            /\ UNCHANGED <<session, users, chat_history, logins, creating,
                           db_ret>>
            /\ UNCHANGED pipelineVars)

\* api_history: get_diagnosis_history(user_id, limit=20)
ApiHistory ==
    login_required(<<"api", "history">>,
        \E history \in get_diagnosis_history(diagnosis_history,
                           SessionGet(session, "user_id", NoUser), 20) :
            Respond(jsonify(<<"api", "history">>, 200, TRUE,
                            [success |-> TRUE, history |-> history])))

\* api_stats
ApiStats ==
    login_required(<<"api", "stats">>,
        Respond(jsonify(<<"api", "stats">>, 200, TRUE,
            [success |-> TRUE,
             stats |-> get_diagnosis_stats(diagnosis_history,
                           SessionGet(session, "user_id", NoUser))])))

\* what the chat model answers: a text, or a failure (a missing package
\* raises like generate_content does)
ChatReplies ==
    {[kind |-> k, text |-> ""] : k \in {"no_key", "raise"}}
        \cup {[kind |-> "text", text |-> "Water it less."]}

\* api_chat
ApiChat(data, gemini) ==
    LET path == <<"api", "chat">> IN
    login_required(path,
    IF data = NoJson THEN JsonAbort(path)
    ELSE LET reply == CASE gemini.kind = "text" -> gemini.text
                        [] gemini.kind = "no_key" ->
                               "Error: Gemini API key not configured."
                        [] OTHER ->
                               "I'm having trouble connecting to my AI brain right now. Please try again in a moment."
         IN  \E now \in Timestamps :
             /\ chat_history' = chat_history \cup
                  {save_chat(sqlite_sequence.chat_history, now,
                             SessionGet(session, "user_id", NoUser),
                             data.message, reply)}
             /\ sqlite_sequence' =
                  [sqlite_sequence EXCEPT !.chat_history = lastrowid(@)]
             /\ clock' = now
             /\ response' = jsonify(path, 200, TRUE,
                                    [success |-> TRUE, response |-> reply])
             /\ UNCHANGED <<session, users, diagnosis_history, uploads,
                            logins, creating, db_ret>>
             /\ UNCHANGED pipelineVars)

(***************************************************************************)
(* One client signing up, logging in and out, with passwords reset in      *)
(* between.                                                                *)
(***************************************************************************)
\* the credentials in the JSON bodies of the client's requests
Credentials ==
    {[email |-> "ann@x.in", password |-> "pass-1"],
     [email |-> "ann@x.in", password |-> "pass-2"],
     [email |-> "bob@x.in", password |-> "pass-1"]}

\* the image pipeline at rest
PipelineIdle ==
    /\ Constructed
    /\ threads = <<>>
    /\ image_bytes = EmptyBuffer
    /\ promotion = "weak"
    /\ predictions = [i \in 1..Len(ClassTable) |-> IF i = 1 THEN ProbScale ELSE 0]
    /\ model_file = FALSE
    /\ classes_file = FALSE

InitAuth == PipelineIdle /\ WebIdle

NextAuth ==
    \/ \E c \in Credentials \cup {[email |-> "", password |-> ""]} :
           ApiSignup([name |-> "Ann", email |-> c.email,
                      password |-> c.password, phone |-> "", dob |-> "",
                      gender |-> ""])
    \/ ApiSignup(NoJson)
    \/ \E e \in Emails \cup {""}, p \in {"pass-1", "pass-2", "abc"} :
           ApiResetPassword([email |-> e, newPassword |-> p])
    \/ ApiResetPassword(NoJson)
    \/ Len(logins) < MaxAuth /\ \E data \in Credentials \cup {NoJson} : ApiLogin(data)
    \/ Len(logins) < MaxAuth /\ ApiLogout

SpecAuth == InitAuth /\ [][NextAuth]_vars

(***************************************************************************)
(* The pages and the API of a running server with two accounts, called by  *)
(* a client that is logged in or not.                                      *)
(***************************************************************************)
InitWeb ==
    /\ PipelineIdle
    /\ users = create_user(create_user({}, 0, "Ann", "ann@x.in", "pass-1",
                                       "", "", "").users,
                           1, "Bob", "bob@x.in", "pass-2", "", "", "").users
    /\ diagnosis_history = {}
    /\ chat_history = {}
    /\ sqlite_sequence = [users |-> 2, diagnosis_history |-> 0, chat_history |-> 0]
    /\ session \in {EmptySession} \cup {SessionOf(u) : u \in users}
    /\ uploads = {}
    /\ clock = 0
    /\ response = [path |-> <<>>, status |-> 0, kind |-> "none", ran |-> FALSE,
                   body |-> [none |-> TRUE]]
    /\ logins = <<>>
    /\ creating = <<>>
    /\ db_ret = NoResult

\* a request is made while fewer than MaxRows rows were written to
\* diagnosis_history and chat_history
NextWeb ==
    \/ \E path \in {<<"">>, <<"login">>} : LoginPage(path)
    \/ ForgotPassword
    \/ \E name \in {"home", "diagnosis", "chat", "history"} : ProtectedPage(name)
    \/ ApiUser
    \/ /\ Cardinality(uploads) < MaxRows
       /\ sqlite_sequence.diagnosis_history + sqlite_sequence.chat_history < MaxRows
       /\ \E file \in {NoneArtifact, GarbageBuffer, Image1x1(PureGreen)},
             gemini \in GeminiReplies :
              ApiAnalyze(file, gemini)
    \/ ApiHistory
    \/ ApiStats
    \/ /\ sqlite_sequence.diagnosis_history + sqlite_sequence.chat_history < MaxRows
       /\ \E data \in {[message |-> "Why are the leaves yellow?"],
                       [message |-> ""], NoJson},
             gemini \in ChatReplies :
              ApiChat(data, gemini)

SpecWeb == InitWeb /\ [][NextWeb]_vars

(***************************************************************************)
(* database.py called directly by concurrent callers.  create_user is two  *)
(* steps on its own connection: the INSERT, which takes the write lock of  *)
(* the database file and checks the constraints, and the commit, which     *)
(* publishes the row and releases the lock.  An INSERT waits while another *)
(* connection holds the lock.                                              *)
(***************************************************************************)
Creators == 1..MaxCreators

WriteLocked == \E c \in Creators : creating[c].pc = "inserted"

\* (variant: an INSERT that does not wait for the other connection's commit)
InsertStep_unlocked(c) ==
    LET cr == creating[c] IN
    /\ cr.pc = "start"
    /\ IF IntegrityError(users, cr.name, cr.email, cr.password)
       THEN creating' = [creating EXCEPT ![c] =
                            [cr EXCEPT !.pc = "done", !.result = EmailExists]]
       ELSE creating' = [creating EXCEPT ![c] = [cr EXCEPT !.pc = "inserted"]]
    /\ UNCHANGED <<session, users, diagnosis_history, chat_history,
                   sqlite_sequence, uploads, clock, response, logins, db_ret>>
    /\ UNCHANGED pipelineVars

\* create_user up to cursor.execute: IntegrityError is caught and answered
InsertStep(c) ==
    LET cr == creating[c] IN
    /\ cr.pc = "start"
    /\ ~WriteLocked
    /\ IF IntegrityError(users, cr.name, cr.email, cr.password)
       THEN creating' = [creating EXCEPT ![c] =
                            [cr EXCEPT !.pc = "done", !.result = EmailExists]]
       ELSE creating' = [creating EXCEPT ![c] = [cr EXCEPT !.pc = "inserted"]]
    /\ UNCHANGED <<session, users, diagnosis_history, chat_history,
                   sqlite_sequence, uploads, clock, response, logins, db_ret>>
    /\ UNCHANGED pipelineVars

\* create_user from conn.commit() to the return: the row inserted by this
\* connection joins the table
CommitStep(c) ==
    LET cr == creating[c]
        done == create_user({}, sqlite_sequence.users, cr.name, cr.email,
                            cr.password, cr.phone, cr.dob, cr.gender)
    IN  /\ cr.pc = "inserted"
        /\ users' = users \cup done.users
        /\ sqlite_sequence' = [sqlite_sequence EXCEPT !.users = done.seq]
        /\ creating' = [creating EXCEPT ![c] =
                           [cr EXCEPT !.pc = "done", !.result = done.result]]
        /\ UNCHANGED <<session, diagnosis_history, chat_history, uploads,
                       clock, response, logins, db_ret>>
        /\ UNCHANGED pipelineVars

\* update_user as one write transaction
UpdateUser(user_id, name, phone) ==
    LET r == update_user(users, user_id, name, phone, "None", "None") IN
    /\ ~WriteLocked
    /\ users' = r.users
    /\ db_ret' = r.result
    /\ UNCHANGED <<session, diagnosis_history, chat_history, sqlite_sequence,
                   uploads, clock, response, logins, creating>>
    /\ UNCHANGED pipelineVars

\* reset_password as one write transaction
ResetPassword(email, new_password) ==
    LET r == reset_password(users, email, new_password) IN
    /\ ~WriteLocked
    /\ users' = r.users
    /\ db_ret' = r.result
    /\ UNCHANGED <<session, diagnosis_history, chat_history, sqlite_sequence,
                   uploads, clock, response, logins, creating>>
    /\ UNCHANGED pipelineVars

\* delete_user as one write transaction
DeleteUser(user_id) ==
    LET r == delete_user(users, diagnosis_history, chat_history, user_id) IN
    /\ ~WriteLocked
    /\ users' = r.users
    /\ diagnosis_history' = r.diagnosis_history
    /\ chat_history' = r.chat_history
    /\ db_ret' = r.result
    /\ UNCHANGED <<session, sqlite_sequence, uploads, clock, response, logins,
                   creating>>
    /\ UNCHANGED pipelineVars

\* a fresh database and MaxCreators callers about to call create_user
InitDB ==
    /\ PipelineIdle
    /\ users = {}
    /\ diagnosis_history = {}
    /\ chat_history = {}
    /\ sqlite_sequence = [users |-> 0, diagnosis_history |-> 0, chat_history |-> 0]
    /\ session = EmptySession
    /\ uploads = {}
    /\ clock = 0
    /\ response = [path |-> <<>>, status |-> 0, kind |-> "none", ran |-> FALSE,
                   body |-> [none |-> TRUE]]
    /\ logins = <<>>
    /\ db_ret = NoResult
    /\ creating \in [Creators ->
           {[pc |-> "start", name |-> "Ann", email |-> e, password |-> "pass-1",
             phone |-> "", dob |-> "", gender |-> "", result |-> NoResult] :
               e \in Emails}]

NextDB ==
    \/ \E c \in Creators : InsertStep(c)
    \/ \E c \in Creators : CommitStep(c)
    \/ \E user_id \in Creators, name \in {"Bob", "None"}, phone \in {"98765", "None"} :
           UpdateUser(user_id, name, phone)
    \/ \E email \in Emails : ResetPassword(email, "pass-2")
    \/ \E user_id \in Creators : DeleteUser(user_id)

SpecDB == InitDB /\ [][NextDB]_vars

(***************************************************************************)
(* The two histories with rows of two users: an account with MaxSeeded     *)
(* earlier diagnoses and one with none, the client of either of them       *)
(* reading its history and statistics while database.py saves rows for     *)
(* both accounts and deletes accounts.                                     *)
(***************************************************************************)
\* save_diagnosis as one write transaction; user_id is not checked against
\* the users table (foreign keys are not enforced)
SaveDiagnosis(user_id, disease) ==
    \E now \in Timestamps :
        /\ diagnosis_history' = diagnosis_history \cup
             {save_diagnosis(sqlite_sequence.diagnosis_history, now, user_id,
                             "Tomato", disease, "92%", "", "None", "None",
                             "False")}
        /\ sqlite_sequence' =
             [sqlite_sequence EXCEPT !.diagnosis_history = lastrowid(@)]
        /\ clock' = now
        /\ UNCHANGED <<session, users, chat_history, uploads, response,
                       logins, creating, db_ret>>
        /\ UNCHANGED pipelineVars

\* save_chat as one write transaction
SaveChat(user_id) ==
    /\ chat_history' = chat_history \cup
         {save_chat(sqlite_sequence.chat_history, clock, user_id,
                    "Why are the leaves yellow?", "Water it less.")}
    /\ sqlite_sequence' =
         [sqlite_sequence EXCEPT !.chat_history = lastrowid(@)]
    /\ UNCHANGED <<session, users, diagnosis_history, uploads, clock,
                   response, logins, creating, db_ret>>
    /\ UNCHANGED pipelineVars

\* Ann (id 1) has MaxSeeded diagnoses saved at distinct earlier times, Bob
\* (id 2) has none; no create_user call is running
InitRows ==
    /\ PipelineIdle
    /\ users = create_user(create_user({}, 0, "Ann", "ann@x.in", "pass-1",
                                       "", "", "").users,
                           1, "Bob", "bob@x.in", "pass-2", "", "", "").users
    /\ diagnosis_history =
           {save_diagnosis(i - 1, i - MaxSeeded - 1, 1, "Rose", "Healthy",
                           "95%", "", "None", "None", "False") :
                i \in 1..MaxSeeded}
    /\ chat_history = {}
    /\ sqlite_sequence = [users |-> 2, diagnosis_history |-> MaxSeeded,
                          chat_history |-> 0]
    /\ session \in {SessionOf(u) : u \in users}
    /\ uploads = {}
    /\ clock = 0
    /\ response = [path |-> <<>>, status |-> 0, kind |-> "none", ran |-> FALSE,
                   body |-> [none |-> TRUE]]
    /\ logins = <<>>
    /\ creating = [c \in Creators |->
                      [pc |-> "done", name |-> "Ann", email |-> "ann@x.in",
                       password |-> "pass-1", phone |-> "", dob |-> "",
                       gender |-> "", result |-> NoResult]]
    /\ db_ret = NoResult

\* rows are saved while fewer than MaxRows rows were added to the two
\* histories
NextRows ==
    \/ /\ sqlite_sequence.diagnosis_history + sqlite_sequence.chat_history
              < MaxSeeded + MaxRows
       /\ \E user_id \in {1, 2} :
              \/ \E disease \in {"Early Blight", "Healthy"} :
                     SaveDiagnosis(user_id, disease)
              \/ SaveChat(user_id)
    \/ \E user_id \in {1, 2} : DeleteUser(user_id)
    \/ ApiHistory
    \/ ApiStats

SpecRows == InitRows /\ [][NextRows]_vars

(***************************************************************************)
(* Properties of analyze_leaf_health.  The counts below are taken from     *)
(* the pixels of the input, not from the histogram.                        *)
(***************************************************************************)
Decoded  == image_bytes.kind = "image"
Pixels   == Len(image_bytes.px)
HueAt(i) == BGR2HSV(image_bytes.px[i]).h
HueCount(lo, hi) ==
    Cardinality({i \in 1..Pixels : lo <= HueAt(i) /\ HueAt(i) < hi})
GreenPixels  == HueCount(35, 85)
YellowPixels == HueCount(15, 35)

Called(op) == ret.op = op
Analyzed ==
    /\ Called("analyze_leaf_health")
    /\ ret.outcome = "returned"
    /\ ret.artifact.kind = "analysis"

\* C1: for every image that decodes, analyze_leaf_health returns a
\* health_score, a green_percentage and a yellow_brown_percentage that each
\* lie in [0, 100] (0..10000 hundredths).
C1_PercentagesInRange ==
    (Called("analyze_leaf_health") /\ Decoded) =>
        /\ Analyzed
        /\ ret.artifact.health_score \in 0..10000
        /\ ret.artifact.green_percentage \in 0..10000
        /\ ret.artifact.yellow_brown_percentage \in 0..10000

\* an analysis where the clamp at 0 acted: more than twice as much yellow
\* as green, both present
C1_Witness ==
    /\ Analyzed
    /\ GreenPixels > 0
    /\ YellowPixels > 2 * GreenPixels
    /\ ret.artifact.health_score = 0
    /\ ret.artifact.yellow_brown_percentage > 5000

\* C2: the returned health_score is clamp(green_ratio * 100 -
\* yellow_ratio * 50, 0, 100) rounded to two decimals, with both ratios
\* taken from the same image; it is 0 whenever yellow_ratio >= 2 * green_ratio.
C2_HealthScoreFormula ==
    Analyzed =>
        IF YellowPixels >= 2 * GreenPixels
        THEN ret.artifact.health_score = 0
        ELSE ret.artifact.health_score =
                RoundDiv(10000 * GreenPixels - 5000 * YellowPixels, Pixels)

\* an analysis with green and yellow both present and a score between the
\* clamps
C2_Witness ==
    /\ Analyzed
    /\ GreenPixels > 0
    /\ YellowPixels > 0
    /\ ret.artifact.health_score > 0
    /\ ret.artifact.health_score < 10000

\* C3: potential_issue is true exactly when the share of yellow-band pixels
\* is strictly greater than 0.30; at exactly 30% it is false.
C3_StrictThreshold ==
    Analyzed =>
        (ret.artifact.potential_issue <=> 10 * YellowPixels > 3 * Pixels)

\* C4: green_percentage is the share of the pixels with hue in [35, 85) and
\* yellow_brown_percentage the share of the pixels with hue in [15, 35):
\* hue 35 is green only, hues 85 and 14 are in neither band.
C4_HueBands ==
    Analyzed =>
        /\ ret.artifact.green_percentage =
              RoundDiv(10000 * Cardinality({i \in 1..Pixels : HueAt(i) \in 35..84}),
                       Pixels)
        /\ ret.artifact.yellow_brown_percentage =
              RoundDiv(10000 * Cardinality({i \in 1..Pixels : HueAt(i) \in 15..34}),
                       Pixels)

\* an analysis of an image made of hue 35 and hue 85 pixels only: the
\* former all count as green, the latter as nothing
C4_Witness ==
    /\ Analyzed
    /\ \E i \in 1..Pixels : HueAt(i) = 35
    /\ \E i \in 1..Pixels : HueAt(i) = 85
    /\ \A i \in 1..Pixels : HueAt(i) \in {35, 85}
    /\ ret.artifact.green_percentage > 0
    /\ ret.artifact.green_percentage < 10000
    /\ ret.artifact.yellow_brown_percentage = 0

\* the buffers that decode to the same grid of hues as buf, the two paints
\* of buf replaced by paints of the same hue
SameHuePaints(c) == {c2 \in Palette : BGR2HSV(c2).h = BGR2HSV(c).h}
SameHueBuffers(buf) ==
    {Buffer("image", buf.w, buf.h,
            [i \in 1..Len(buf.px) |->
                IF buf.px[i] = buf.px[1] THEN a ELSE b]) :
        a \in SameHuePaints(buf.px[1]),
        b \in SameHuePaints(buf.px[Len(buf.px)])}

\* C5: the analysis depends on the hue of every pixel of the frame only:
\* an image with the same per-pixel hues, whatever its saturations and
\* values (also below the mask threshold 40), gets the same HealthAnalysis.
C5_FullFrameHueOnly ==
    Analyzed =>
        \A other \in SameHueBuffers(image_bytes) :
            analyze_leaf_health(other, promotion).artifact = ret.artifact

\* an analysis of an image whose green-hued pixels are all left out of the
\* segmentation mask (saturation or value under 40) and yet all count
C5_Witness ==
    /\ Analyzed
    /\ \A i \in 1..Pixels :
          /\ HueAt(i) \in 35..84
          /\ \/ BGR2HSV(image_bytes.px[i]).s < 40
             \/ BGR2HSV(image_bytes.px[i]).v < 40
    /\ \A i \in 1..Pixels : segment_leaf(image_bytes).mask.px[i] = 0
    /\ \E other \in SameHueBuffers(image_bytes) : other # image_bytes
    /\ ret.artifact.green_percentage = 10000

(***************************************************************************)
(* Decode failures and totality.                                           *)
(***************************************************************************)
EntryPoints == {"preprocess_image", "enhance_image", "detect_edges",
                "analyze_leaf_health"}

DecodeFailure(op) == Returned(op, NoneArtifact, NoneArtifact, FailedToLoad)

\* C6: a 0-byte input to any entry point returns the decode-failure result
\* (no artifact, the error value); it raises nothing and returns no
\* zero-filled artifact.
C6_EmptyInputIsDecodeFailure ==
    (image_bytes = EmptyBuffer /\ ret.op \in EntryPoints) =>
        ret = DecodeFailure(ret.op)

\* C7: whenever decoding fails, whatever the cause and the entry point, every
\* returned artifact is None and the error is "Failed to load image".
C7_UniformDecodeFailure ==
    (~Decoded /\ ret.op # "none") =>
        /\ ret.outcome = "returned"
        /\ ret.artifact = NoneArtifact
        /\ ret.mask = NoneArtifact
        /\ ret.error = FailedToLoad

\* C8: once decoding succeeds every entry point returns an artifact and the
\* error None; the total hue-histogram mass is the pixel count, so no ratio
\* of analyze_leaf_health is a division by zero.
C8_TotalAfterDecode ==
    (Decoded /\ ret.op # "none") =>
        /\ ret.outcome = "returned"
        /\ ret.error = ErrNone
        /\ ret.artifact # NoneArtifact
        /\ Called("analyze_leaf_health") =>
              /\ ret.artifact.green_percentage # NaN
              /\ ret.artifact.yellow_brown_percentage # NaN
              /\ TotalMass(calcHistHue(cvtColorHSV(imdecode(image_bytes).img)))
                    = image_bytes.w * image_bytes.h

\* an analysis of a 1 x 1 image whose hue lies above both bands
C8_Witness ==
    /\ Analyzed
    /\ image_bytes.w = 1 /\ image_bytes.h = 1
    /\ HueAt(1) >= 90
    /\ ret.error = ErrNone
    /\ ret.artifact.green_percentage = 0

\* C9: for every image that decodes, whatever its width and height,
\* preprocess_image returns 224 x 224 x 3 values (the configured target
\* size), each n / 255 for an integer n in 0..255.
C9_TensorShapeAndRange ==
    (Called("preprocess_image") /\ Decoded) =>
        /\ ret.outcome = "returned"
        /\ ret.artifact.kind = "tensor"
        /\ target_size = <<224, 224>>
        /\ ret.artifact.shape = <<224, 224, 3>>
        /\ ret.artifact.den = 255
        /\ 0 <= ret.artifact.lo
        /\ ret.artifact.lo <= ret.artifact.hi
        /\ ret.artifact.hi <= ret.artifact.den

\* a tensor made from an image that is neither square nor 224 wide
C9_Witness ==
    /\ Called("preprocess_image")
    /\ Decoded
    /\ image_bytes.w > 2 * image_bytes.h
    /\ image_bytes.h > 1
    /\ ret.error = ErrNone
    /\ ret.artifact.shape = <<224, 224, 3>>

(***************************************************************************)
(* The confidence gates.                                                   *)
(***************************************************************************)
MaxProb == npMax(predictions)

SolidOf(c) == Decoded /\ \A i \in 1..Pixels : image_bytes.px[i] = c

\* the same frame painted with colour c throughout
Repainted(c) ==
    Buffer("image", image_bytes.w, image_bytes.h, TwoTone(Pixels, Pixels, c, c))

\* C14: for a solid pure-green image (every pixel RGB 0,255,0, hue 60)
\* analyze_leaf_health returns green_percentage 100, yellow_brown_percentage
\* 0, potential_issue false and health_score 100.
C14_SolidGreen ==
    (Called("analyze_leaf_health") /\ SolidOf(PureGreen)) =>
        /\ Analyzed
        /\ \A i \in 1..Pixels : HueAt(i) = 60
        /\ ret.artifact.green_percentage = 10000
        /\ ret.artifact.yellow_brown_percentage = 0
        /\ ret.artifact.potential_issue = FALSE
        /\ ret.artifact.health_score = 10000

\* an analysis of a solid pure-green frame of several rows and columns
C14_Witness ==
    /\ Analyzed
    /\ SolidOf(PureGreen)
    /\ image_bytes.w > 1 /\ image_bytes.h > 1
    /\ ret.artifact.green_percentage = 10000

\* C15: for a solid yellow-brown image (every pixel RGB 200,150,30)
\* analyze_leaf_health returns yellow_brown_percentage above 30,
\* potential_issue true, and a health_score below the one it returns for
\* the solid pure-green image of the same size.
C15_SolidYellowBrown ==
    (Called("analyze_leaf_health") /\ SolidOf(YellowBrown)) =>
        /\ Analyzed
        /\ ret.artifact.yellow_brown_percentage > 3000
        /\ ret.artifact.potential_issue = TRUE
        /\ ret.artifact.health_score <
              analyze_leaf_health(Repainted(PureGreen), promotion)
                  .artifact.health_score

\* an analysis of a solid yellow-brown frame of several rows and columns,
\* flagged, on an installation with the stricter comparison
C15_Witness ==
    /\ Analyzed
    /\ SolidOf(YellowBrown)
    /\ image_bytes.w > 1 /\ image_bytes.h > 1
    /\ promotion = "weak"
    /\ ret.artifact.potential_issue = TRUE
    /\ ret.artifact.health_score = 0

\* C16: for an all-black image analyze_leaf_health does not fail and
\* returns green_percentage 0: every black pixel has hue 0, outside both
\* scored bands, and the histogram total is the pixel count, not zero.
C16_AllBlack ==
    (Called("analyze_leaf_health") /\ SolidOf(Black)) =>
        /\ Analyzed
        /\ ret.error = ErrNone
        /\ \A i \in 1..Pixels : HueAt(i) = 0
        /\ TotalMass(calcHistHue(cvtColorHSV(imdecode(image_bytes).img)))
              = Pixels
        /\ Pixels > 0
        /\ ret.artifact.green_percentage = 0
        /\ ret.artifact.yellow_brown_percentage = 0

\* an analysis of an all-black frame of several rows and columns
C16_Witness ==
    /\ Analyzed
    /\ SolidOf(Black)
    /\ image_bytes.w > 1 /\ image_bytes.h > 1
    /\ ret.artifact.green_percentage = 0
    /\ ret.artifact.health_score = 0

(***************************************************************************)
(* The edge map of a square frame.                                         *)
(***************************************************************************)
EdgesFound ==
    /\ Called("detect_edges")
    /\ ret.outcome = "returned"
    /\ ret.artifact.kind = "edges"

Uniform == Decoded /\ \A i \in 1..Pixels : image_bytes.px[i] = image_bytes.px[1]

\* pixel i lies on the outer border of a w x h frame
OnBorder(i, w, h) ==
    \/ (i - 1) % w \in {0, w - 1}
    \/ (i - 1) \div w \in {0, h - 1}

EdgePixels == {i \in 1..Pixels : ret.artifact.px[i] = 255}

\* the distance of pixel i from the outer border of a side x side frame
\* (0 on the border); the red square of Inset(side, m, ..) has its own
\* border pixels at distance m
RingOf(i, side) ==
    LET x == (i - 1) % side
        y == (i - 1) \div side
    IN  Min2(Min2(x, side - 1 - x), Min2(y, side - 1 - y))

\* C17 (as stated): detect_edges on a 50x50 red square gives a 50x50 edge
\* map whose border pixels are edges and whose interior pixels are not,
\* whether the square fills the frame or is drawn inside it.
C17_RedSquareBorderEdges ==
    \A m \in {0, 10} : \A bg \in {Black, White} :
        (Called("detect_edges") /\ image_bytes = Inset(50, m, Red, bg)) =>
            /\ EdgesFound
            /\ ret.artifact.shape = <<50, 50>>
            /\ EdgePixels = {i \in 1..Pixels : RingOf(i, 50) = m}

\* C17 (amended): the edge map has the dimensions of the frame and holds
\* only 0 and 255.  A frame of one colour, the 50x50 red square included,
\* has no edge pixel at all, on its border or inside.  A red square drawn
\* 10 pixels inside a black or white 50x50 frame has a contour that runs
\* along its border, each edge pixel on the square's border or on the
\* pixel next to it outside, and no edge pixel further inside or outside.
C17_UniformFrameNoEdges ==
    (Called("detect_edges") /\ Decoded) =>
        /\ EdgesFound
        /\ ret.artifact.shape = <<image_bytes.h, image_bytes.w>>
        /\ Len(ret.artifact.px) = Pixels
        /\ \A i \in 1..Pixels : ret.artifact.px[i] \in {0, 255}
        /\ Uniform => EdgePixels = {}
        /\ \A bg \in {Black, White} :
              image_bytes = Inset(50, 10, Red, bg) =>
                  /\ EdgePixels # {}
                  /\ \A i \in EdgePixels : RingOf(i, 50) \in {9, 10}
                  /\ \E i \in EdgePixels : RingOf(i, 50) = 9
                  /\ \E i \in EdgePixels : RingOf(i, 50) = 10

\* the edge map of the 50x50 red square: 50x50 and empty
C17_Witness ==
    /\ EdgesFound
    /\ image_bytes = Inset(50, 0, Red, Red)
    /\ ret.artifact.shape = <<50, 50>>
    /\ EdgePixels = {}

(***************************************************************************)
(* Runs of calls on the shared instance.                                   *)
(***************************************************************************)
PureOps == {"enhance_image", "detect_edges", "analyze_leaf_health"}

C13_CallsFrame ==
    [][Len(calls') > Len(calls) =>
          /\ target_size = <<224, 224>>
          /\ target_size' = <<224, 224>>
          /\ image_bytes' = image_bytes
          /\ calls'[Len(calls')].input = image_bytes'
          /\ \A k \in 1..Len(calls) : calls'[k] = calls[k]
          /\ model' = model
          /\ class_names' = class_names]_vars

\* after a call that raised, a call that returned the decode failure and a
\* call that returned a tensor, the field is what the constructor set
C13_Witness ==
    /\ Len(calls) = 3
    /\ \E k \in 1..3 : calls[k].outcome.outcome = "raised"
    /\ \E k \in 1..3 : /\ calls[k].outcome.outcome = "returned"
                        /\ calls[k].outcome.error = FailedToLoad
    /\ \E k \in 1..3 : /\ calls[k].op = "preprocess_image"
                        /\ calls[k].outcome.error = ErrNone
    /\ target_size = <<224, 224>>

(***************************************************************************)
(* Concurrent calls.                                                       *)
(***************************************************************************)
\* what the method returns when it is the only call running
Alone(op) ==
    CASE op = "preprocess_image" -> preprocess_image(<<224, 224>>, image_bytes)
      [] op = "enhance_image" -> enhance_image(image_bytes)
      [] op = "detect_edges" -> detect_edges(image_bytes)
      [] op = "analyze_leaf_health" -> analyze_leaf_health(image_bytes, promotion)

\* C12: when preprocess_image, enhance_image, analyze_leaf_health and
\* detect_edges run at the same time on the same input through the shared
\* instance, in whatever order their steps interleave, each call that has
\* finished has returned what it returns when run alone.
C12_InterleavingsAgree ==
    \A t \in DOMAIN threads :
        threads[t].pc = "done" => threads[t].ret = Alone(threads[t].op)

\* the four calls all finished on an image that decodes, the preprocessing
\* call having returned its tensor
C12_Witness ==
    /\ DOMAIN threads = Threads
    /\ Decoded
    /\ \A t \in Threads : threads[t].pc = "done"
    /\ \A t \in Threads : threads[t].ret.error = ErrNone
    /\ \E t \in Threads : /\ threads[t].op = "preprocess_image"
                           /\ threads[t].ret.artifact.shape = <<224, 224, 3>>
    /\ \E t \in Threads : /\ threads[t].op = "detect_edges"
                           /\ threads[t].ret.artifact.kind = "edges"

(***************************************************************************)
(* The users table under concurrent callers.                               *)
(***************************************************************************)
NoSharedEmail == \A u, v \in users : u.email = v.email => u = v

\* no users row was deleted so far: every id handed out is still there
NoDelete == Cardinality(users) = sqlite_sequence.users

CallsFor(e) == {c \in Creators : creating[c].email = e}
Succeeded(e) ==
    {c \in CallsFor(e) : creating[c].pc = "done" /\ creating[c].result.success}

ExactlyOneSucceeds ==
    \A e \in Emails :
        NoDelete =>
            /\ Cardinality(Succeeded(e)) <= 1
            /\ (CallsFor(e) # {} /\ \A c \in CallsFor(e) : creating[c].pc = "done")
                   => Cardinality(Succeeded(e)) = 1

\* the INSERT of a create_user call whose email is in the table
RejectsExisting ==
    \A c \in Creators :
        (/\ creating[c].pc = "start" /\ creating'[c].pc # "start"
         /\ \E u \in users : u.email = creating[c].email)
            => /\ creating'[c].pc = "done"
               /\ creating'[c].result = EmailExists
               /\ users' = users

\* C20: whatever create_user, update_user, reset_password and delete_user
\* calls were made, no two users rows share an email; a create_user call
\* with an email that is in the table returns success = false with the
\* error "Email already exists" and leaves the table as it was; of the
\* create_user calls made for one email, concurrent or not, exactly one
\* succeeds (as long as no row was deleted in between)
C20_UniqueEmails ==
    [](NoSharedEmail /\ ExactlyOneSucceeds) /\ [][RejectsExisting]_vars

\* two calls for one email have returned, one with the new id and one with
\* "Email already exists", and the row has since had its password reset
C20_Witness ==
    \E c, d \in Creators :
        /\ c # d /\ creating[c].email = creating[d].email
        /\ creating[c].pc = "done" /\ creating[c].result.success
        /\ creating[d].pc = "done" /\ creating[d].result = EmailExists
        /\ NoDelete
        /\ \E u \in users : u.email = creating[c].email /\ u.password = "pass-2"

(***************************************************************************)
(* The session of a client that logs in and out.                           *)
(***************************************************************************)
\* the session the requests in log leave behind: that of the last
\* successful login, if no logout came after it
RECURSIVE SessionAfter(_)
SessionAfter(log) ==
    IF log = <<>> THEN EmptySession
    ELSE LET last == log[Len(log)] IN
         IF last.route = "api_logout" THEN EmptySession
         ELSE IF last.result.success THEN SessionOf(last.result.user)
         ELSE SessionAfter(SubSeq(log, 1, Len(log) - 1))

\* the users rows the credentials of a login request match
Matched(data) ==
    IF data = NoJson THEN {}
    ELSE {u \in users : u.email = data.email /\ u.password = data.password}

\* a login request succeeds exactly when a row matches, and then the
\* session holds that row's id, name and email; otherwise it keeps the session
LoginMatches ==
    (Len(logins') = Len(logins) + 1 /\ logins'[Len(logins')].route = "api_login")
        => LET last == logins'[Len(logins')] IN
           IF Matched(last.data) # {}
           THEN /\ last.result.success
                /\ \E u \in Matched(last.data) : session' = SessionOf(u)
           ELSE /\ ~last.result.success
                /\ session' = session

\* C19: at every point of a sequence of api_login and api_logout requests
\* of one client, the session holds user_id exactly when a login succeeded
\* since the last logout, and then it holds the id, name and email of the
\* row the most recent successful login matched; a failed login leaves the
\* session as it was and a logout empties it
C19_SessionFollowsLogins ==
    /\ [](/\ session = SessionAfter(logins)
          /\ ("user_id" \in DOMAIN session) =
                 (\E i \in 1..Len(logins) :
                     /\ logins[i].route = "api_login" /\ logins[i].result.success
                     /\ \A j \in (i + 1)..Len(logins) :
                            logins[j].route # "api_logout"))
    /\ [][LoginMatches]_vars

\* a logout, then a successful login, then a failed one: the session is
\* still that of the successful login
C19_Witness ==
    /\ Len(logins) = 3
    /\ logins[1].route = "api_logout"
    /\ logins[2].route = "api_login" /\ logins[2].result.success
    /\ logins[3].route = "api_login" /\ ~logins[3].result.success
    /\ "user_id" \in DOMAIN session
    /\ session = SessionOf(logins[2].result.user)

(***************************************************************************)
(* The routes behind login_required.                                       *)
(***************************************************************************)
ProtectedPaths ==
    {<<"home">>, <<"diagnosis">>, <<"chat">>, <<"history">>,
     <<"api", "user">>, <<"api", "analyze">>, <<"api", "history">>,
     <<"api", "stats">>, <<"api", "chat">>}

\* a request to a protected route, answered in this step
GuardedByLogin ==
    response'.path \in ProtectedPaths =>
        IF "user_id" \in DOMAIN session
        THEN response'.ran
        ELSE /\ ~response'.ran
             /\ IF StartsWithApi(response'.path)
                THEN /\ response'.status = 401
                     /\ response'.kind = "json"
                     /\ response'.body.success = FALSE
                ELSE /\ response'.status = 302
                     /\ response'.kind = "redirect"
                     /\ response'.body.location = "login"
             /\ users' = users
             /\ diagnosis_history' = diagnosis_history
             /\ chat_history' = chat_history
             /\ sqlite_sequence' = sqlite_sequence
             /\ uploads' = uploads

\* C18: a handler wrapped by login_required (the home, diagnosis, chat and
\* history pages, /api/user, /api/analyze, /api/history, /api/stats and
\* /api/chat) runs only when the session contains user_id; without it a
\* request whose path starts with /api/ gets status 401 with success =
\* false, any other path is redirected to the login page, and no database
\* row and no upload file is written
C18_LoginRequired == [][GuardedByLogin]_vars

\* an upload by a client that is not logged in was answered with 401, and
\* the upload folder and the tables are still empty
C18_Witness ==
    /\ "user_id" \notin DOMAIN session
    /\ response.path = <<"api", "analyze">>
    /\ response.status = 401
    /\ ~response.ran
    /\ uploads = {} /\ diagnosis_history = {} /\ chat_history = {}

(***************************************************************************)
(* The lazily loaded classifier.                                           *)
(***************************************************************************)
\* C27: whenever load_model returns True, the globals model and
\* class_names are both set, whatever load_model calls came before (one
\* that loaded the model file and failed on the classes file included);
\* while the model file is absent load_model returns False and leaves both
\* globals None, and predict_disease returns success = false
C27_LoadedMeansBoth ==
    /\ load_ret = "True" => (model # "None" /\ class_names # "None")
    /\ (~model_file /\ load_ret # "none")
           => (load_ret = "False" /\ model = "None" /\ class_names = "None")
    /\ (~model_file /\ predict_ret.outcome # "none") => ~predict_ret.success

RowsOf(user_id) == {d \in diagnosis_history : d.user_id = user_id}

\* C26: in every state of diagnosis_history and for every user id,
\* get_diagnosis_stats returns total_scans = diseased_plants +
\* healthy_plants, none of them negative, and diseased_plants is the number
\* of the user's rows with disease different from "Healthy" and
\* is_unknown = 0
C26_StatsPartition ==
    \A user_id \in {u.id : u \in users} :
        LET stats == get_diagnosis_stats(diagnosis_history, user_id) IN
        /\ stats.total_scans = stats.diseased_plants + stats.healthy_plants
        /\ stats.total_scans >= 0
        /\ stats.diseased_plants >= 0
        /\ stats.healthy_plants >= 0
        /\ stats.total_scans = Cardinality(RowsOf(user_id))
        /\ stats.diseased_plants =
               Cardinality({d \in RowsOf(user_id) :
                               d.disease # "Healthy" /\ d.is_unknown = 0})

(***************************************************************************)
(* Resetting a password.                                                   *)
(***************************************************************************)
\* what a call reset_password(email, new_password) has done in a step
ResetEffect(email, new_password) ==
    IF \E u \in users : u.email = email
    THEN /\ db_ret'.success
         /\ {u.id : u \in users'} = {u.id : u \in users}
         /\ \A u \in users :
                IF u.email = email
                THEN [u EXCEPT !.password = new_password] \in users'
                ELSE u \in users'
         /\ Cardinality(users') = Cardinality(users)
         /\ login_user(users', email, new_password).success
         /\ \A u \in users :
                (u.email = email /\ u.password # new_password)
                    => ~login_user(users', email, u.password).success
    ELSE /\ db_ret' = [success |-> FALSE, error |-> "Email not found"]
         /\ users' = users

\* C21: reset_password with an email no user has answers "Email not found"
\* and changes no row; with an existing email it replaces the password of
\* that user and of no other, and then login_user with the email succeeds
\* with the new password and fails with the old one when they differ
C21_ResetPassword ==
    [][\A email \in Emails :
           ResetPassword(email, "pass-2") => ResetEffect(email, "pass-2")]_vars

\* two users, the password of one of them reset and the other's kept
C21_Witness ==
    /\ db_ret = [success |-> TRUE, message |-> "Password reset successfully"]
    /\ \E u, v \in users :
           /\ u.password = "pass-2"
           /\ v.password = "pass-1"
           /\ ~login_user(users, u.email, "pass-1").success
           /\ login_user(users, u.email, "pass-2").success

(***************************************************************************)
(* Deleting a user.                                                        *)
(***************************************************************************)
\* what a call delete_user(user_id) that returned success has done in a step
DeleteEffect(user_id) ==
    db_ret'.success =>
        /\ ~\E u \in users' : u.id = user_id
        /\ ~\E d \in diagnosis_history' : d.user_id = user_id
        /\ ~\E c \in chat_history' : c.user_id = user_id
        /\ \A u \in users :
               u.id = user_id => get_user_by_email(users', u.email) = NoneArtifact
        /\ \A u \in users : u.id # user_id => u \in users'
        /\ \A d \in diagnosis_history : d.user_id # user_id => d \in diagnosis_history'
        /\ \A c \in chat_history : c.user_id # user_id => c \in chat_history'
        /\ users' \subseteq users
        /\ diagnosis_history' \subseteq diagnosis_history
        /\ chat_history' \subseteq chat_history

\* C22: after delete_user(u) returned success no users row has id u, no
\* diagnosis_history or chat_history row has user_id u, get_user_by_email of
\* the deleted user's email returns None, and every row of another user is
\* unchanged
C22_DeleteCascade ==
    [][\A user_id \in {1, 2} : DeleteUser(user_id) => DeleteEffect(user_id)]_vars

\* Ann, who had diagnoses and a chat row, was deleted; Bob and his diagnosis
\* stay
C22_Witness ==
    /\ db_ret = [success |-> TRUE,
                 message |-> "User and related data deleted successfully"]
    /\ {u.id : u \in users} = {2}
    /\ sqlite_sequence.chat_history = 1
    /\ chat_history = {}
    /\ Cardinality(diagnosis_history) = 1
    /\ \A d \in diagnosis_history : d.user_id = 2

(***************************************************************************)
(* What a logged-in user reads of the diagnosis history.                   *)
(***************************************************************************)
\* the history api_history has just returned to the user of the session
HistoryOfOwnRows ==
    ApiHistory =>
        LET history == response'.body.history IN
        /\ Len(history) <= 20
        /\ \A i \in 1..Len(history) :
               /\ history[i].user_id = session.user_id
               /\ history[i] \in diagnosis_history
        /\ \A i, j \in 1..Len(history) : i # j => history[i] # history[j]
        /\ Len(history) < 20 => Len(history) = Cardinality(RowsOf(session.user_id))

\* the statistics api_stats has just returned to the user of the session
StatsOfOwnRows ==
    ApiStats =>
        response'.body.stats.total_scans = Cardinality(RowsOf(session.user_id))

\* a diagnosis saved by another user changes neither answer
OthersInvisible ==
    \A user_id \in {1, 2}, disease \in {"Early Blight", "Healthy"} :
        (SaveDiagnosis(user_id, disease) /\ user_id # session.user_id) =>
            /\ get_diagnosis_history(diagnosis_history', session.user_id, 20)
                   = get_diagnosis_history(diagnosis_history, session.user_id, 20)
            /\ get_diagnosis_stats(diagnosis_history', session.user_id)
                   = get_diagnosis_stats(diagnosis_history, session.user_id)

\* C23: for a logged-in user A, /api/history and /api/stats return data of
\* the diagnosis_history rows with user_id A only: the history has at most
\* 20 rows, all of A, and a diagnosis saved by another user changes nothing
\* of what A receives
C23_OwnRowsOnly ==
    [][HistoryOfOwnRows /\ StatsOfOwnRows /\ OthersInvisible]_vars

\* Ann has 21 diagnoses and Bob has saved one: Ann has received 20 rows
C23_Witness ==
    /\ response.path = <<"api", "history">>
    /\ response.ran
    /\ Len(response.body.history) = 20
    /\ Cardinality(RowsOf(session.user_id)) > 20
    /\ \E d \in diagnosis_history : d.user_id # session.user_id

(***************************************************************************)
(* What api_analyze writes.                                                *)
(***************************************************************************)
\* an answer of api_analyze and the rows it has appended (every request
\* handler sets response, so a step to a response with this path is a step
\* of api_analyze)
AnalyzeEffect ==
    /\ response'.kind = "json"
    /\ chat_history' = chat_history
    /\ diagnosis_history \subseteq diagnosis_history'
    /\ IF response'.body.success
       THEN /\ Cardinality(diagnosis_history' \ diagnosis_history) = 1
            /\ \A d \in diagnosis_history' \ diagnosis_history :
                   d.user_id = session.user_id
       ELSE /\ "error" \in DOMAIN response'.body
            /\ diagnosis_history' = diagnosis_history

\* C24: api_analyze appends exactly one diagnosis_history row, with the
\* user_id of the session, exactly when it returns success = true; on every
\* failure (no image field, no API key, an answer blocked or without text,
\* text that is not JSON, any raised exception) it returns success = false
\* with an error and appends no row
C24_RowIffSuccess ==
    [][response'.path = <<"api", "analyze">> => AnalyzeEffect]_vars

\* a failed request that left its upload and no row, then a successful one
C24_Witness ==
    /\ response.path = <<"api", "analyze">>
    /\ response.ran
    /\ response.body.success
    /\ Cardinality(uploads) = 2
    /\ Cardinality(diagnosis_history) = 1
    /\ \A d \in diagnosis_history : d.user_id = session.user_id

(***************************************************************************)
(* What api_chat writes.                                                   *)
(***************************************************************************)
\* an answer of api_chat to the request body data and the row it has
\* appended
ChatEffect(data) ==
    /\ response'.kind = "json"
    /\ response'.body.success
    /\ diagnosis_history' = diagnosis_history
    /\ chat_history \subseteq chat_history'
    /\ Cardinality(chat_history' \ chat_history) = 1
    /\ \A c \in chat_history' \ chat_history :
           /\ c.user_id = session.user_id
           /\ c.message = data.message
           /\ c.response = response'.body.response

\* C25: every /api/chat request of a logged-in user returns success = true
\* and appends exactly one chat_history row with the user's id, the message
\* and the returned response text, also when the API key is missing or the
\* Gemini call raises
C25_ChatAlwaysSaved ==
    [][\A data \in {[message |-> "Why are the leaves yellow?"],
                    [message |-> ""], NoJson},
          gemini \in ChatReplies :
              (/\ response'.path = <<"api", "chat">>
               /\ "user_id" \in DOMAIN session
               /\ ApiChat(data, gemini)) => ChatEffect(data)]_vars
====
